---- MODULE Spec2Model ----
(***************************************************************************)
(* simplechrome: the frame manager (frame tree, execution contexts) and    *)
(* the WaitTask polling engine of src/simplechrome/frame_manager.py, and   *)
(* the target and browser-context registry of src/simplechrome/chrome.py,  *)
(* as a state machine.  Frame objects are numbered 1..MaxFrameObjs in      *)
(* order of construction, so that the identity of a Frame object is        *)
(* distinct from the frame id it is tracked under; Target and              *)
(* BrowserContext objects are numbered in the same way.                    *)
(***************************************************************************)
EXTENDS Integers, Sequences, FiniteSets, TLC

\* ------------------------------------------------------------------ bounds
MaxFrameObjs == 3   \* Frame objects ever constructed
MaxTasks == 1       \* WaitTasks ever constructed
MaxRuns == 2        \* reruns started per WaitTask
MaxNavs == 3        \* navigations recorded in all, over every Frame object
MaxTargetObjs == 2  \* Target objects ever constructed
MaxReady == 2       \* callbacks in the event loop's ready queue
MaxEvents == 4      \* events emitted on the Browser and its contexts
MaxContextObjs == 2 \* BrowserContext objects ever constructed
MaxWaits == 1       \* waitForTarget calls
MaxPages == 1       \* createPageInContext calls

None == 0
Objs == 1..MaxFrameObjs
\* the frame ids and the execution-context ids the notifications carry
FrameIds == {1, 2, 3}
CtxIds == {1, 2}
Tasks == 1..MaxTasks
Urls == {"a", "b"}

VARIABLES
  frames,     \* FrameManager._frames: frame id -> Frame object (None: absent)
  mainFrame,  \* FrameManager.mainFrame: Frame object or None
  nObjs,      \* number of Frame objects constructed so far
  fr,         \* the fields of every Frame object
  contexts,   \* FrameManager._contextIdToContext, in insertion order
  tk,         \* the fields of every WaitTask
  runs,       \* the started, unfinished WaitTask.rerun coroutines
  emitted,    \* the events the last step emitted on the FrameManager
  lastOp,     \* the last step taken, with its arguments and what it raised
  _targets,   \* Chrome._targets: target id -> Target object (None: absent)
  nTargets,   \* number of Target objects constructed so far
  tg,         \* the fields of every Target object
  _contexts,  \* Chrome._contexts: context id -> BrowserContext object
  nContexts,  \* number of BrowserContext objects constructed so far
  bc,         \* the fields of every BrowserContext object
  ready,      \* the event loop's queue of callbacks ready to run, in order
  listeners,  \* the listeners registered on the Browser, in order
  wt,         \* the waitForTarget calls
  cp,         \* the createPageInContext calls
  sent,       \* the protocol calls sent and not answered yet
  bemitted,   \* every event emitted on the Browser and its contexts, in order
  bop         \* the last step of the Browser, and what it raised

\* the state of the Browser
bvars == <<_targets, nTargets, tg, _contexts, nContexts, bc, ready, listeners,
           wt, cp, sent, bemitted, bop>>

vars == <<frames, mainFrame, nObjs, fr, contexts, tk, runs, emitted, lastOp,
          bvars>>

\* ------------------------------------------------------------- data shapes
\* A Frame object that has not been constructed yet.
NoFrame ==
  [id |-> None, parent |-> None, children |-> {}, detached |-> FALSE,
   url |-> "", name |-> "", navs |-> <<>>, waitTasks |-> {},
   ctx |-> None, cb |-> FALSE]

\* Frame.__init__: the fields of a fresh Frame.  ctx is the value of
\* _contextPromise (None: pending), cb says whether _contextResolveCallback
\* is the one that resolves _contextPromise (TRUE) or the no-op lambda.
NewFrame(frameId, parentFrame) ==
  [id |-> frameId, parent |-> parentFrame, children |-> {}, detached |-> FALSE,
   url |-> "", name |-> "", navs |-> <<>>, waitTasks |-> {},
   ctx |-> None, cb |-> TRUE]

Pending == [state |-> "pending", val |-> "", by |-> 0, latest |-> 0]

\* no polling argument
NoPolling == [kind |-> "none", s |-> "", n |-> 0]

\* A WaitTask that has not been constructed yet.
NoTask ==
  [frame |-> None, polling |-> NoPolling, timeout |-> "", runCount |-> 0,
   terminated |-> FALSE, timeoutError |-> FALSE, promise |-> Pending,
   timer |-> "none", sched |-> 0, fault |-> "none", firstTruthy |-> FALSE]

Op(name, a, b, exc) ==
  [op |-> name, a |-> a, b |-> b, exc |-> exc, polling |-> NoPolling,
   outcome |-> ""]

Ev(name, frame) == [ev |-> name, frame |-> frame]

\* ----------------------------------------------------------------- helpers
Perms(S) ==
  {s \in [1..Cardinality(S) -> S] : \A i, j \in 1..Cardinality(S) : s[i] = s[j] => i = j}

RECURSIVE Descendants(_, _)
\* the Frame objects below o by the _childFrames relation
Descendants(f, o) ==
  f[o].children \cup UNION {Descendants(f, c) : c \in f[o].children}

RECURSIVE PostOrders(_, _)
RECURSIVE ConcatOrders(_, _)
\* the orders in which _removeFramesRecursively(o) can reach the frames of
\* o's subtree: children first, each set of children in any iteration order
PostOrders(f, o) ==
  UNION {{s \o <<o>> : s \in ConcatOrders(f, p)} : p \in Perms(f[o].children)}

ConcatOrders(f, p) ==
  IF p = <<>> THEN {<<>>}
  ELSE {a \o b : a \in PostOrders(f, Head(p)), b \in ConcatOrders(f, Tail(p))}

\* A state of the frame manager as the handlers thread it through their calls.
St(f, r, k) == [frames |-> f, fr |-> r, tk |-> k]

\* ---------------------------------------------------------------- WaitTask
Cancel(timer) == IF timer = "armed" THEN "cancelled" ELSE timer

\* _cleanup without the cancellation of the timer
_cleanupKeepTimer(st, t) ==
  LET o == st.tk[t].frame
  IN IF t \in st.fr[o].waitTasks
     THEN [st EXCEPT !.fr[o].waitTasks = @ \ {t}]
     ELSE [st EXCEPT !.tk[t].fault = "KeyError"]

\* WaitTask._cleanup: cancel the timer unless it is the one that fired, and
\* remove the task from its frame's set (set.remove raises KeyError when the
\* task is not a member).
_cleanup(st, t) ==
  LET task == st.tk[t]
      o == task.frame
      timer == IF ~task.timeoutError THEN Cancel(task.timer) ELSE task.timer
  IN IF t \in st.fr[o].waitTasks
     THEN [st EXCEPT !.tk[t].timer = timer,
                     !.fr[o].waitTasks = @ \ {t}]
     ELSE [st EXCEPT !.tk[t].timer = timer,
                     !.tk[t].fault = "KeyError"]

\* terminate that marks and cleans up but leaves the promise alone
terminateKeepPending(st, t, error) ==
  _cleanup([st EXCEPT !.tk[t].terminated = TRUE], t)

\* WaitTask.terminate(error)
terminate(st, t, error) ==
  LET task == st.tk[t]
      promise == IF task.promise.state = "pending"
                 THEN [state |-> "exception", val |-> error, by |-> 0,
                       latest |-> task.runCount]
                 ELSE task.promise
  IN _cleanup([st EXCEPT !.tk[t].terminated = TRUE,
                         !.tk[t].promise = promise], t)

RECURSIVE terminateAll(_, _, _)
\* the loop of Frame._detach over list(self._waitTasks)
terminateAll(st, ts, error) ==
  IF ts = {} THEN st
  ELSE LET t == CHOOSE x \in ts : TRUE
       IN terminateAll(terminate(st, t, error), ts \ {t}, error)

\* ------------------------------------------------------------------- Frame
\* Frame._detach without the removal from the parent's child set
_detachKeepInParent(st, o) ==
  LET s1 == terminateAll(st, st.fr[o].waitTasks, "detached")
  IN [s1 EXCEPT !.fr[o].detached = TRUE, !.fr[o].parent = None]

\* Frame._detach
_detach(st, o) ==
  LET s1 == terminateAll(st, st.fr[o].waitTasks, "detached")
      p == s1.fr[o].parent
      s2 == IF p # None /\ o \in s1.fr[p].children
            THEN [s1 EXCEPT !.fr[p].children = @ \ {o}]
            ELSE s1
  IN [s2 EXCEPT !.fr[o].detached = TRUE, !.fr[o].parent = None]

\* Frame._navigated(framePayload)
_navigated(f, url, name) ==
  [f EXCEPT !.name = name, !.url = url, !.navs = Append(@, url)]

\* Frame._navigatedWithinDocument(url)
_navigatedWithinDocumentUrlOnly(f, url) == [f EXCEPT !.url = url]

_navigatedWithinDocument(f, url) ==
  [f EXCEPT !.url = url, !.navs = Append(@, url)]

\* ------------------------------------------------------------ FrameManager
\* _removeFramesRecursively without the pop of the frame's id
RemoveOneKeepTracked(st, o) == _detach(st, o)

\* one frame's turn in _removeFramesRecursively, after its children's turns:
\* frame._detach(), then whatever is tracked under its id is popped
RemoveOne(st, o) ==
  LET s1 == _detach(st, o)
      i == s1.fr[o].id
  IN IF s1.frames[i] # None THEN [s1 EXCEPT !.frames[i] = None] ELSE s1

RECURSIVE RemoveSeq(_, _)
RemoveSeq(st, order) ==
  IF order = <<>> THEN st
  ELSE RemoveSeq(RemoveOne(st, Head(order)), Tail(order))

DetachedEvents(order) ==
  [i \in 1..Len(order) |-> Ev("framedetached", order[i])]

RECURSIVE SumNavs(_, _)
SumNavs(f, os) ==
  IF os = {} THEN 0
  ELSE LET o == CHOOSE x \in os : TRUE
       IN Len(f[o].navs) + SumNavs(f, os \ {o})

\* the navigations recorded so far
TotalNavs == SumNavs(fr, Objs)

\* the events a step of the frame manager emitted; the Browser is not
\* touched by it
Emit(evs) ==
  /\ emitted' = evs
  /\ UNCHANGED bvars

\* the events, in order, a handler that ran to its end or to `exc` emitted
Done(name, a, b, exc, evs) ==
  /\ lastOp' = Op(name, a, b, exc)
  /\ Emit(evs)

Apply(st) ==
  /\ frames' = st.frames
  /\ fr' = st.fr
  /\ tk' = st.tk

Here == St(frames, fr, tk)

\* _onFrameAttached without its guard against a tracked id
_onFrameAttachedAgain(frameId, parentFrameId) ==
  LET parentFrame == IF parentFrameId = None THEN None
                     ELSE frames[parentFrameId]
      o == nObjs + 1
      f1 == [fr EXCEPT ![o] = NewFrame(frameId, parentFrame)]
      f2 == IF parentFrame # None
            THEN [f1 EXCEPT ![parentFrame].children = @ \cup {o}]
            ELSE f1
  IN /\ nObjs < MaxFrameObjs
     /\ nObjs' = o
     /\ fr' = f2
     /\ frames' = [frames EXCEPT ![frameId] = o]
     /\ Done("frameAttached", frameId, None, "none",
             <<Ev("frameattached", o)>>)
     /\ UNCHANGED <<mainFrame, contexts, tk, runs>>

\* FrameManager._onFrameAttached(frameId, parentFrameId)
_onFrameAttached(frameId, parentFrameId) ==
  IF frames[frameId] # None
  THEN /\ Done("frameAttached", frameId, None, "none", <<>>)
       /\ UNCHANGED <<frames, mainFrame, nObjs, fr, contexts, tk, runs>>
  ELSE LET parentFrame == IF parentFrameId = None THEN None
                          ELSE frames[parentFrameId]
           o == nObjs + 1
           f1 == [fr EXCEPT ![o] = NewFrame(frameId, parentFrame)]
           f2 == IF parentFrame # None
                 THEN [f1 EXCEPT ![parentFrame].children = @ \cup {o}]
                 ELSE f1
       IN /\ nObjs < MaxFrameObjs
          /\ nObjs' = o
          /\ fr' = f2
          /\ frames' = [frames EXCEPT ![frameId] = o]
          /\ Done("frameAttached", frameId, None, "none",
                  <<Ev("frameattached", o)>>)
          /\ UNCHANGED <<mainFrame, contexts, tk, runs>>

\* the rebinding without the pop of the old id
RebindKeepOldId(st, o, id) ==
  [st EXCEPT !.fr[o].id = id, !.frames[id] = o]

\* _onFrameNavigated, the main frame kept over a navigation: its old id is
\* popped, the Frame takes the payload's id and is registered under it
RebindMainFrame(st, o, id) ==
  LET popped == [st.frames EXCEPT ![st.fr[o].id] = None]
  IN [st EXCEPT !.fr[o].id = id, !.frames = [popped EXCEPT ![id] = o]]

\* the navigated frame's children left in place
ChildOrdersNone(f, frame) == {<<>>}

\* _onFrameNavigated, "Detach all child frames first": the orders in which
\* the loop over frame.childFrames reaches the frames below `frame`, each
\* child's subtree torn down by _removeFramesRecursively
ChildOrders(f, frame) ==
  IF frame = None THEN {<<>>}
  ELSE UNION {ConcatOrders(f, p) : p \in Perms(f[frame].children)}

\* no navigation taken for inconsistent
InconsistentNever(isMainFrame, frame) == FALSE

\* _onFrameNavigated, `if not (isMainFrame or frame)`: a navigation of a
\* frame that is neither the main frame nor tracked
Inconsistent(isMainFrame, frame) == ~(isMainFrame \/ frame # None)

\* FrameManager._onFrameNavigated(framePayload), framePayload holding id,
\* parentId (None: absent), url and name
_onFrameNavigated(id, parentId, url, name) ==
  LET isMainFrame == parentId = None
      frame == IF isMainFrame THEN mainFrame ELSE frames[id]
  IN IF Inconsistent(isMainFrame, frame)
     THEN /\ Done("frameNavigated", id, parentId, "PageError", <<>>)
          /\ UNCHANGED <<frames, mainFrame, nObjs, fr, contexts, tk, runs>>
     ELSE \E order \in ChildOrders(fr, frame) :
            LET s1 == RemoveSeq(Here, order)
                fresh == isMainFrame /\ frame = None
                o == IF fresh THEN nObjs + 1 ELSE frame
                \* Update or create main frame.
                s2 == IF ~isMainFrame THEN s1
                      ELSE IF fresh
                      THEN [s1 EXCEPT !.fr[o] = NewFrame(id, None),
                                      !.frames[id] = o]
                      ELSE RebindMainFrame(s1, o, id)
                s3 == [s2 EXCEPT !.fr[o] = _navigated(@, url, name)]
            IN /\ fresh => nObjs < MaxFrameObjs
               /\ TotalNavs < MaxNavs
               /\ nObjs' = IF fresh THEN o ELSE nObjs
               /\ mainFrame' = IF isMainFrame THEN o ELSE mainFrame
               /\ Apply(s3)
               /\ Done("frameNavigated", id, parentId, "none",
                       DetachedEvents(order) \o <<Ev("framenavigated", o)>>)
               /\ UNCHANGED <<contexts, runs>>

\* FrameManager._onFrameDetached(frameId)
_onFrameDetached(frameId) ==
  LET frame == frames[frameId]
  IN IF frame = None
     THEN /\ Done("frameDetached", frameId, None, "none", <<>>)
          /\ UNCHANGED <<frames, mainFrame, nObjs, fr, contexts, tk, runs>>
     ELSE \E order \in PostOrders(fr, frame) :
            /\ Apply(RemoveSeq(Here, order))
            /\ Done("frameDetached", frameId, None, "none", DetachedEvents(order))
            /\ UNCHANGED <<mainFrame, nObjs, contexts, runs>>

\* FrameManager._onNavigatedWithinDocument(event): the handler dereferences
\* the looked-up frame whether or not it was found
_onNavigatedWithinDocument(frameId, url) ==
  LET frame == frames[frameId]
  IN IF frame = None
     THEN /\ Done("navigatedWithinDocument", frameId, None, "AttributeError", <<>>)
          /\ UNCHANGED <<frames, mainFrame, nObjs, fr, contexts, tk, runs>>
     ELSE /\ TotalNavs < MaxNavs
          /\ fr' = [fr EXCEPT ![frame] = _navigatedWithinDocument(@, url)]
          /\ Done("navigatedWithinDocument", frameId, None, "none", <<>>)
          /\ UNCHANGED <<frames, mainFrame, nObjs, contexts, tk, runs>>

\* ------------------------------------------------------ execution contexts
\* What the context handlers thread through their calls.
Cs(r, k, rs) == [fr |-> r, tk |-> k, runs |-> rs]

\* a rerun that awaits the _contextPromise of frame o
Awaits(cs, run, o) == cs.tk[run.t].frame = o

\* Frame._setDefaultContext(context).  With a context: the resolve callback
\* runs (it sets the pending promise, or is the no-op lambda), the callback
\* becomes the no-op lambda, and a rerun of every wait task is scheduled.
\* With None: a fresh pending promise replaces _contextPromise, so whoever
\* awaits the replaced pending promise is never woken.
_setDefaultContext(cs, o, context) ==
  IF context # None
  THEN [fr |-> IF cs.fr[o].cb
               THEN [cs.fr EXCEPT ![o].ctx = context, ![o].cb = FALSE]
               ELSE cs.fr,
        tk |-> [t \in Tasks |->
                  IF t \in cs.fr[o].waitTasks
                  THEN [cs.tk[t] EXCEPT !.sched = @ + 1]
                  ELSE cs.tk[t]],
        runs |-> IF cs.fr[o].cb
                 THEN {IF Awaits(cs, run, o) /\ run.pc = "awaitCtx"
                         THEN [run EXCEPT !.pc = "gotCtx", !.ctx = context]
                       ELSE IF Awaits(cs, run, o) /\ run.pc = "notAwaitCtx"
                         THEN [run EXCEPT !.pc = "notGotCtx", !.ctx = context]
                       ELSE run : run \in cs.runs}
                 ELSE cs.runs]
  ELSE [fr |-> [cs.fr EXCEPT ![o].ctx = None, ![o].cb = TRUE],
        tk |-> cs.tk,
        runs |-> {IF Awaits(cs, run, o) /\ run.pc = "awaitCtx"
                    THEN [run EXCEPT !.pc = "orphan"]
                  ELSE IF Awaits(cs, run, o) /\ run.pc = "notAwaitCtx"
                    THEN [run EXCEPT !.pc = "notOrphan"]
                  ELSE run : run \in cs.runs}]

\* ExecutionContext.__init__: the fields the frame manager reads back
ExecutionContext(id, frameId, isDefault) ==
  [id |-> id, frameId |-> frameId, isDefault |-> isDefault]

\* dict assignment: an existing key keeps its place
PutContext(cx, c) ==
  IF \E i \in 1..Len(cx) : cx[i].id = c.id
  THEN [i \in 1..Len(cx) |-> IF cx[i].id = c.id THEN c ELSE cx[i]]
  ELSE Append(cx, c)

DelContext(cx, id) == SelectSeq(cx, LAMBDA c : c.id # id)

ApplyCs(cs) ==
  /\ fr' = cs.fr
  /\ tk' = cs.tk
  /\ runs' = cs.runs

HereCs == Cs(fr, tk, runs)

\* FrameManager._onExecutionContextCreated(contextPayload)
_onExecutionContextCreated(id, frameId, isDefault) ==
  LET fid == IF isDefault THEN frameId ELSE None
      frame == IF fid # None THEN frames[fid] ELSE None
      context == ExecutionContext(id, frameId, isDefault)
  IN /\ frame # None =>
          \A t \in fr[frame].waitTasks : tk[t].runCount + tk[t].sched < MaxRuns
     /\ contexts' = PutContext(contexts, context)
     /\ IF frame # None
        THEN ApplyCs(_setDefaultContext(HereCs, frame, id))
        ELSE UNCHANGED <<fr, tk, runs>>
     /\ Done("executionContextCreated", id, frame, "none", <<>>)
     /\ UNCHANGED <<frames, mainFrame, nObjs>>

\* FrameManager._removeContext(context): [cs, exc]
_removeContext(cs, context) ==
  IF context.frameId # None /\ frames[context.frameId] = None
  THEN [cs |-> cs, exc |-> "KeyError"]
  ELSE LET frame == IF context.frameId # None THEN frames[context.frameId]
                    ELSE None
       IN IF frame # None /\ context.isDefault
          THEN [cs |-> _setDefaultContext(cs, frame, None), exc |-> "none"]
          ELSE [cs |-> cs, exc |-> "none"]

\* FrameManager._onExecutionContextDestroyed(executionContextId)
_onExecutionContextDestroyed(id) ==
  IF ~\E i \in 1..Len(contexts) : contexts[i].id = id
  THEN /\ Done("executionContextDestroyed", id, None, "none", <<>>)
       /\ UNCHANGED <<frames, mainFrame, nObjs, fr, contexts, tk, runs>>
  ELSE LET context == contexts[CHOOSE i \in 1..Len(contexts) : contexts[i].id = id]
           r == _removeContext(HereCs, context)
       IN /\ contexts' = DelContext(contexts, id)
          /\ ApplyCs(r.cs)
          /\ Done("executionContextDestroyed", id, None, r.exc, <<>>)
          /\ UNCHANGED <<frames, mainFrame, nObjs>>

RECURSIVE RemoveContexts(_, _)
\* the loop of _onExecutionContextsCleared, which an exception ends
RemoveContexts(cs, cx) ==
  IF cx = <<>> THEN [cs |-> cs, exc |-> "none"]
  ELSE LET r == _removeContext(cs, Head(cx))
       IN IF r.exc # "none" THEN r ELSE RemoveContexts(r.cs, Tail(cx))

\* FrameManager._onExecutionContextsCleared()
_onExecutionContextsCleared ==
  LET r == RemoveContexts(HereCs, contexts)
  IN /\ contexts' = IF r.exc = "none" THEN <<>> ELSE contexts
     /\ ApplyCs(r.cs)
     /\ Done("executionContextsCleared", None, None, r.exc, <<>>)
     /\ UNCHANGED <<frames, mainFrame, nObjs>>

\* ------------------------------------------------------ WaitTask, its steps
\* The polling argument as the constructor tells its values apart.
Str(x) == [kind |-> "str", s |-> x, n |-> 0]
Num(x) == [kind |-> "num", s |-> "", n |-> x]
Other == [kind |-> "other", s |-> "", n |-> 0]

\* the checks with an interval of 0 let through
ValidPollingFromZero(polling) ==
  IF polling.kind = "str" THEN polling.s \in {"raf", "mutation"}
  ELSE IF polling.kind = "num" THEN ~(polling.n < 0)
  ELSE FALSE

\* the checks at the head of WaitTask.__init__
ValidPolling(polling) ==
  IF polling.kind = "str" THEN polling.s \in {"raf", "mutation"}
  ELSE IF polling.kind = "num" THEN ~(polling.n <= 0)
  ELSE FALSE

\* WaitTask.__init__(frame, predicateBody, polling, timeout): the timeout is
\* "positive", "zero", "negative" or "none"
WaitTask(t, o, polling, timeout) ==
  /\ tk[t].frame = None
  /\ \A u \in Tasks : u < t => tk[u].frame # None
  /\ o \in 1..nObjs
  /\ IF ~ValidPolling(polling)
     THEN /\ lastOp' = [Op("WaitTask", t, o, "ValueError")
                           EXCEPT !.polling = polling]
          /\ Emit(<<>>)
          /\ UNCHANGED <<frames, mainFrame, nObjs, fr, contexts, tk, runs>>
     ELSE /\ tk' = [tk EXCEPT ![t] =
                      [NoTask EXCEPT !.frame = o, !.polling = polling,
                                     !.timeout = timeout, !.timer = "armed",
                                     !.sched = 1]]
          /\ fr' = [fr EXCEPT ![o].waitTasks = @ \cup {t}]
          /\ lastOp' = [Op("WaitTask", t, o, "none")
                           EXCEPT !.polling = polling]
          /\ Emit(<<>>)
          /\ UNCHANGED <<frames, mainFrame, nObjs, contexts, runs>>

\* the timer that marks the timeout and leaves the task as it is
TimerFireOnlyMarks(t) ==
  /\ tk[t].timer = "armed"
  /\ tk[t].timeout # "none"
  /\ tk' = [tk EXCEPT ![t].timer = "fired", ![t].timeoutError = TRUE]
  /\ Done("timer", t, None, "none", <<>>)
  /\ UNCHANGED <<frames, mainFrame, nObjs, fr, contexts, runs>>

\* the timer coroutine after its sleep: it fires whatever number the timeout
\* is (asyncio.sleep returns at once for a delay <= 0)
TimerFire(t) ==
  /\ tk[t].timer = "armed"
  /\ tk[t].timeout # "none"
  /\ Apply(terminate([Here EXCEPT !.tk[t].timer = "fired",
                                  !.tk[t].timeoutError = TRUE], t, "timeout"))
  /\ Done("timer", t, None, "none", <<>>)
  /\ UNCHANGED <<mainFrame, nObjs, contexts, runs>>

\* the timer coroutine of a task whose timeout is None: timeout / 1000 raises
TimerFail(t) ==
  /\ tk[t].timer = "armed"
  /\ tk[t].timeout = "none"
  /\ tk' = [tk EXCEPT ![t].timer = "failed"]
  /\ Done("timer", t, None, "TypeError", <<>>)
  /\ UNCHANGED <<frames, mainFrame, nObjs, fr, contexts, runs>>

\* A call of rerun in progress: the task, its runCount, where it is
\* suspended, whether its handle is truthy, the context its pending
\* evaluation went to (None: none yet) and the context of its handle.
Run(t, n, pc, truthy) ==
  [t |-> t, n |-> n, pc |-> pc, truthy |-> truthy, ctx |-> None,
   handle |-> None]

\* WaitTask.rerun from its first line to its first suspension
RerunStart(t) ==
  /\ tk[t].sched > 0
  /\ LET n == tk[t].runCount + 1
         bound == fr[tk[t].frame].ctx # None
     IN /\ tk' = [tk EXCEPT ![t].sched = @ - 1, ![t].runCount = n]
        /\ runs' = runs \cup
             {[Run(t, n, IF bound THEN "evalHandle" ELSE "awaitCtx", FALSE)
                 EXCEPT !.ctx = fr[tk[t].frame].ctx]}
        /\ Done("rerun", t, None, "none", <<>>)
  /\ UNCHANGED <<frames, mainFrame, nObjs, fr, contexts>>

\* a rerun woken by its frame's context promise calls evaluateHandle (pc
\* "gotCtx"), or the evaluate of "s => !s" (pc "notGotCtx")
RerunGotContext(run) ==
  /\ run.pc \in {"gotCtx", "notGotCtx"}
  /\ runs' = (runs \ {run}) \cup
       {[run EXCEPT !.pc = IF run.pc = "gotCtx" THEN "evalHandle" ELSE "evalNot"]}
  /\ Done("rerun", run.t, None, "none", <<>>)
  /\ UNCHANGED <<frames, mainFrame, nObjs, fr, contexts, tk>>

EvalOutcomes == {"truthy", "falsy", "destroyed", "nocontext", "error"}

\* only the destroyed context taken for a race to retry after
RetryableOnlyDestroyed(outcome) == outcome = "destroyed"

Retryable(outcome) == outcome \in {"destroyed", "nocontext"}

\* the run's guard against having been superseded or terminated
Stale(task, run) == task.terminated \/ run.n # task.runCount

\* WaitTask.rerun from the return of evaluateHandle to its next suspension
\* or its end
RerunEvaluated(run, outcome) ==
  LET t == run.t
      task == tk[t]
      success == outcome \in {"truthy", "falsy"}
      rest == runs \ {run}
  IN /\ run.pc = "evalHandle"
     /\ lastOp' = [Op("rerun", t, None, "none") EXCEPT !.outcome = outcome]
     /\ Emit(<<>>)
     /\ UNCHANGED <<mainFrame, nObjs, contexts>>
     /\ IF task.promise.state # "pending"
        THEN /\ runs' = rest
             /\ UNCHANGED <<frames, fr, tk>>
        ELSE IF Stale(task, run)
        THEN /\ runs' = IF success
                        THEN rest \cup {[run EXCEPT !.pc = "dispose"]}
                        ELSE rest
             /\ UNCHANGED <<frames, fr, tk>>
        ELSE IF success
        THEN /\ runs' = rest \cup
                  {[run EXCEPT !.truthy = (outcome = "truthy"),
                               !.pc = IF fr[task.frame].ctx # None
                                      THEN "evalNot" ELSE "notAwaitCtx",
                               !.handle = run.ctx,
                               !.ctx = fr[task.frame].ctx]}
             /\ tk' = [tk EXCEPT ![t].firstTruthy =
                         @ \/ (run.n = 1 /\ outcome = "truthy")]
             /\ UNCHANGED <<frames, fr>>
        ELSE IF Retryable(outcome)
        THEN /\ runs' = rest
             /\ UNCHANGED <<frames, fr, tk>>
        ELSE /\ runs' = rest
             /\ Apply(_cleanup(
                  [Here EXCEPT !.tk[t].promise =
                     [state |-> "exception", val |-> "error", by |-> run.n,
                      latest |-> task.runCount]], t))

\* WaitTask.rerun after success.dispose()
RerunDisposed(run) ==
  /\ run.pc = "dispose"
  /\ runs' = runs \ {run}
  /\ Done("rerun", run.t, None, "none", <<>>)
  /\ UNCHANGED <<frames, mainFrame, nObjs, fr, contexts, tk>>

\* WaitTask.rerun from the return of the evaluate of "s => !s" to its end:
\* the evaluate raises, or returns whether the handle's value is falsy
RerunChecked(run, raised) ==
  LET t == run.t
      task == tk[t]
      rest == runs \ {run}
  IN /\ run.pc = "evalNot"
     /\ UNCHANGED <<mainFrame, nObjs, contexts>>
     /\ IF raised
        THEN /\ runs' = rest
             /\ Done("rerun", t, None, "NetworkError", <<>>)
             /\ UNCHANGED <<frames, fr, tk>>
        ELSE IF ~run.truthy
        THEN /\ runs' = rest \cup {[run EXCEPT !.pc = "dispose"]}
             /\ lastOp' = [Op("rerun", t, None, "none")
                              EXCEPT !.outcome = "isFalsy"]
             /\ Emit(<<>>)
             /\ UNCHANGED <<frames, fr, tk>>
        ELSE IF task.promise.state # "pending"
        THEN /\ runs' = rest
             /\ tk' = [tk EXCEPT ![t].fault = "InvalidStateError"]
             /\ Done("rerun", t, None, "InvalidStateError", <<>>)
             /\ UNCHANGED <<frames, fr>>
        ELSE /\ runs' = rest
             /\ Apply(_cleanup(
                  [Here EXCEPT !.tk[t].promise =
                     [state |-> "result", val |-> "value", by |-> run.n,
                      latest |-> task.runCount]], t))
             /\ Done("rerun", t, None, "none", <<>>)

\* ---------------------------------------------------------------- Browser
\* the target ids and browser-context ids the protocol messages carry
TargetIds == {1, 2}
BCtxIds == {1}
TObjs == 1..MaxTargetObjs
BCObjs == 1..MaxContextObjs
Waits == 1..MaxWaits
Pages == 1..MaxPages

\* the Browser as an emitter, next to its BrowserContext objects 1, 2, ...
Browser == 0
\* Chrome._defaultContext is the first BrowserContext object constructed
DefaultContext == 1

\* A Target object that has not been constructed yet.
NoTarget ==
  [id |-> None, ctx |-> None, url |-> "", init |-> "none",
   isInitialized |-> FALSE, closed |-> FALSE, waiters |-> <<>>]

\* the targetInfo of a notification: `init` says whether this info completes
\* the target's initialization
TargetInfo(targetId, browserContextId, url, init) ==
  [targetId |-> targetId, browserContextId |-> browserContextId, url |-> url,
   init |-> init]

\* Target(targetInfo, browserContext, browser): initialized at once when the
\* info allows it, initializing otherwise
Target(tinfo, context) ==
  [id |-> tinfo.targetId, ctx |-> context, url |-> tinfo.url,
   init |-> IF tinfo.init THEN "true" ELSE "pending",
   isInitialized |-> tinfo.init, closed |-> FALSE, waiters |-> <<>>]

NoContext == [id |-> None, made |-> FALSE]

\* BrowserContext(client, browser, contextId)
BrowserContext(contextId) == [id |-> contextId, made |-> TRUE]

\* A callback in the ready queue or a coroutine suspended on a promise: the
\* handler or call it belongs to, where it resumes, and its locals.
Co(kind, pc, id, ctx, url, init, obj, n) ==
  [kind |-> kind, pc |-> pc, id |-> id, ctx |-> ctx, url |-> url,
   init |-> init, obj |-> obj, n |-> n]

\* the task the emitter starts for a coroutine handler
Handler(kind, tinfo) ==
  Co(kind, "start", tinfo.targetId, tinfo.browserContextId, tinfo.url,
     tinfo.init, None, None)

\* a callback of the waitForTarget call w
WaitCo(kind, w) == Co(kind, "resume", None, None, "", FALSE, None, w)

\* the info a handler's task carries
InfoOf(co) == TargetInfo(co.id, co.ctx, co.url, co.init)

\* A waitForTarget call that has not been made yet.
NoWait ==
  [state |-> "none", pred |-> {}, timeout |-> "none", promise |-> "none",
   res |-> None, timer |-> "none", mustCancel |-> FALSE, ret |-> None,
   before |-> 0, immediate |-> FALSE]

\* A createPageInContext call that has not been made yet.
NoPage ==
  [state |-> "none", ctx |-> None, target |-> None, obj |-> None,
   exc |-> "none"]

BOp(name, id, obj, exc) == [op |-> name, id |-> id, obj |-> obj, exc |-> exc]

BEv(name, target, on) == [ev |-> name, target |-> target, on |-> on]

Listener(w, ev) == [w |-> w, ev |-> ev]

\* the part of the Browser's state its handlers rewrite
Bs(ts, n, g, r, w, e) ==
  [_targets |-> ts, nTargets |-> n, tg |-> g, ready |-> r, wt |-> w,
   bemitted |-> e]

HereBs == Bs(_targets, nTargets, tg, ready, wt, bemitted)

ApplyBs(bs) ==
  /\ _targets' = bs._targets
  /\ nTargets' = bs.nTargets
  /\ tg' = bs.tg
  /\ ready' = bs.ready
  /\ wt' = bs.wt
  /\ bemitted' = bs.bemitted

\* Target._initializedCallback(value): the initialization resolves once;
\* the coroutines suspended on it become ready in the order they suspended
_initializedCallback(bs, o, value) ==
  IF bs.tg[o].init # "pending" THEN bs
  ELSE [bs EXCEPT !.tg[o].init = IF value THEN "true" ELSE "false",
                  !.tg[o].waiters = <<>>,
                  !.ready = @ \o bs.tg[o].waiters]

\* Target.targetInfoChanged(targetInfo): the new info is taken over, and it
\* completes a pending initialization when it allows it
Target_targetInfoChanged(bs, o, tinfo) ==
  LET b1 == [bs EXCEPT !.tg[o].url = tinfo.url]
  IN IF ~b1.tg[o].isInitialized /\ tinfo.init
     THEN _initializedCallback([b1 EXCEPT !.tg[o].isInitialized = TRUE],
                               o, TRUE)
     ELSE b1

\* Target._closedCallback()
_closedCallback(bs, o) == [bs EXCEPT !.tg[o].closed = TRUE]

\* check(atarget) of the waitForTarget call w: the first match resolves the
\* call's promise, which makes its done callback and the call itself ready
check(bs, w, o) ==
  IF bs.tg[o].id \in bs.wt[w].pred /\ bs.wt[w].promise = "pending"
  THEN [bs EXCEPT !.wt[w].promise = "result", !.wt[w].res = o,
                  !.ready = @ \o <<WaitCo("removeListeners", w),
                                   WaitCo("waitForTarget", w)>>]
  ELSE bs

RECURSIVE CallListeners(_, _, _, _)
CallListeners(bs, ls, ev, o) ==
  IF ls = <<>> THEN bs
  ELSE CallListeners(IF Head(ls).ev = ev THEN check(bs, Head(ls).w, o) ELSE bs,
                     Tail(ls), ev, o)

\* emitter.emit(event, target) on the Browser or on a BrowserContext; only
\* the Browser has listeners
emit(bs, on, ev, o) ==
  LET b1 == [bs EXCEPT !.bemitted = Append(@, BEv(ev, o, on))]
  IN IF on = Browser THEN CallListeners(b1, listeners, ev, o) ELSE b1

\* the event emitted on the Browser, then on the BrowserContext
emitBoth(bs, ev, o, context) == emit(emit(bs, Browser, ev, o), context, ev, o)

\* a step of the Browser leaves the frame manager alone
FrameUnchanged ==
  UNCHANGED <<frames, mainFrame, nObjs, fr, contexts, tk, runs, emitted,
              lastOp>>

\* the handler tasks of targetCreated notifications that have not started
Starting(kind) ==
  {i \in 1..Len(ready) : ready[i].kind = kind /\ ready[i].pc = "start"}

\* the connection emits a notification: the emitter starts a task for the
\* coroutine handler, which runs when the loop gets to it
Notify(kind, tinfo) ==
  /\ Len(ready) < MaxReady
  /\ kind = "targetCreated" =>
       nTargets + Cardinality(Starting("targetCreated")) < MaxTargetObjs
  /\ kind = "targetInfoChanged" => Len(bemitted) < MaxEvents
  /\ ready' = Append(ready, Handler(kind, tinfo))
  /\ bop' = BOp("notify", None, None, "none")
  /\ UNCHANGED <<_targets, nTargets, tg, _contexts, nContexts, bc, listeners,
                 wt, cp, sent, bemitted>>
  /\ FrameUnchanged

\* the callback at the head of the ready queue is the next to run
Runs(kind, pc) ==
  /\ ready # <<>>
  /\ Head(ready).kind = kind
  /\ Head(ready).pc = pc

\* the state a callback starts from: itself taken off the queue
Popped == [HereBs EXCEPT !.ready = Tail(ready)]

\* every target given to the default context
OwningContextDefault(browserContextId) == DefaultContext

\* _targetCreated, the BrowserContext the new target belongs to: the one
\* registered under the event's browserContextId, else the default one
OwningContext(browserContextId) ==
  IF /\ browserContextId # None
     /\ browserContextId \in BCtxIds
     /\ _contexts[browserContextId] # None
  THEN _contexts[browserContextId]
  ELSE DefaultContext

\* _targetCreated registering the new Target before the check for an id
\* that is registered already
_targetCreatedOverwrites ==
  LET co == Head(ready)
      known == co.ctx # None /\ co.ctx \in BCtxIds /\ _contexts[co.ctx] # None
      context == IF known THEN _contexts[co.ctx] ELSE DefaultContext
      o == nTargets + 1
      b1 == [Popped EXCEPT !.nTargets = o,
                           !.tg[o] = Target(InfoOf(co), context),
                           !._targets[co.id] = o]
  IN /\ Runs("targetCreated", "start")
     /\ IF _targets[co.id] # None
        THEN /\ ApplyBs(b1)
             /\ bop' = BOp("targetCreated", co.id, o, "BrowserError")
        ELSE /\ bop' = BOp("targetCreated", co.id, o, "none")
             /\ IF b1.tg[o].init = "pending"
                THEN ApplyBs([b1 EXCEPT !.tg[o].waiters =
                                Append(@, [co EXCEPT !.pc = "awaitInit",
                                                     !.obj = o])])
                ELSE ApplyBs(emitBoth(b1, "targetcreated", o, context))
     /\ UNCHANGED <<_contexts, nContexts, bc, listeners, cp, sent>>
     /\ FrameUnchanged

\* Chrome._targetCreated(event) up to its await of the initialization
_targetCreated ==
  LET co == Head(ready)
      context == OwningContext(co.ctx)
      o == nTargets + 1
      b0 == [Popped EXCEPT !.nTargets = o,
                           !.tg[o] = Target(InfoOf(co), context)]
      b1 == [b0 EXCEPT !._targets[co.id] = o]
  IN /\ Runs("targetCreated", "start")
     /\ IF _targets[co.id] # None
        THEN /\ ApplyBs(b0)
             /\ bop' = BOp("targetCreated", co.id, o, "BrowserError")
        ELSE /\ bop' = BOp("targetCreated", co.id, o, "none")
             /\ IF b1.tg[o].init = "pending"
                THEN ApplyBs([b1 EXCEPT !.tg[o].waiters =
                                Append(@, [co EXCEPT !.pc = "awaitInit",
                                                     !.obj = o])])
                ELSE ApplyBs(emitBoth(b1, "targetcreated", o, context))
     /\ UNCHANGED <<_contexts, nContexts, bc, listeners, cp, sent>>
     /\ FrameUnchanged

\* _targetCreated emitting whatever the initialization resolved to
_targetCreatedResumedAlways ==
  LET co == Head(ready)
      o == co.obj
  IN /\ Runs("targetCreated", "awaitInit")
     /\ bop' = BOp("targetCreatedResumed", co.id, o, "none")
     /\ ApplyBs(emitBoth(Popped, "targetcreated", o, tg[o].ctx))
     /\ UNCHANGED <<_contexts, nContexts, bc, listeners, cp, sent>>
     /\ FrameUnchanged

\* Chrome._targetCreated woken by the initialization it awaited
_targetCreatedResumed ==
  LET co == Head(ready)
      o == co.obj
  IN /\ Runs("targetCreated", "awaitInit")
     /\ bop' = BOp("targetCreatedResumed", co.id, o, "none")
     /\ IF tg[o].init = "true"
        THEN ApplyBs(emitBoth(Popped, "targetcreated", o, tg[o].ctx))
        ELSE ApplyBs(Popped)
     /\ UNCHANGED <<_contexts, nContexts, bc, listeners, cp, sent>>
     /\ FrameUnchanged

\* _targetDestroyed emitting on the Browser alone
_targetDestroyedBrowserOnly ==
  LET co == Head(ready)
      o == _targets[co.id]
      b1 == _initializedCallback(Popped, o, FALSE)
      b2 == [b1 EXCEPT !._targets[co.id] = None]
      b3 == _closedCallback(b2, o)
  IN /\ Runs("targetDestroyed", "start")
     /\ IF o = None
        THEN /\ ApplyBs(Popped)
             /\ bop' = BOp("targetDestroyed", co.id, None, "KeyError")
        ELSE /\ bop' = BOp("targetDestroyed", co.id, o, "none")
             /\ IF b3.tg[o].init = "true"
                THEN ApplyBs(emit(b3, Browser, "targetdestroyed", o))
                ELSE ApplyBs(b3)
     /\ UNCHANGED <<_contexts, nContexts, bc, listeners, cp, sent>>
     /\ FrameUnchanged

\* Chrome._targetDestroyed(event): the initialization it awaits is resolved
\* by then, so it runs to its end
_targetDestroyed ==
  LET co == Head(ready)
      o == _targets[co.id]
      b1 == _initializedCallback(Popped, o, FALSE)
      b2 == [b1 EXCEPT !._targets[co.id] = None]
      b3 == _closedCallback(b2, o)
  IN /\ Runs("targetDestroyed", "start")
     /\ IF o = None
        THEN /\ ApplyBs(Popped)
             /\ bop' = BOp("targetDestroyed", co.id, None, "KeyError")
        ELSE /\ bop' = BOp("targetDestroyed", co.id, o, "none")
             /\ IF b3.tg[o].init = "true"
                THEN ApplyBs(emitBoth(b3, "targetdestroyed", o, tg[o].ctx))
                ELSE ApplyBs(b3)
     /\ UNCHANGED <<_contexts, nContexts, bc, listeners, cp, sent>>
     /\ FrameUnchanged

\* targetInfoChanged emitting TargetChanged whatever the urls
targetInfoChangedAlways ==
  LET co == Head(ready)
      o == _targets[co.id]
      b1 == Target_targetInfoChanged(Popped, o, InfoOf(co))
  IN /\ Runs("targetInfoChanged", "start")
     /\ IF o = None
        THEN /\ ApplyBs(Popped)
             /\ bop' = BOp("targetInfoChanged", co.id, None, "BrowserError")
        ELSE /\ bop' = BOp("targetInfoChanged", co.id, o, "none")
             /\ ApplyBs(emitBoth(b1, "targetchanged", o, tg[o].ctx))
     /\ UNCHANGED <<_contexts, nContexts, bc, listeners, cp, sent>>
     /\ FrameUnchanged

\* Chrome.targetInfoChanged(event)
targetInfoChanged ==
  LET co == Head(ready)
      o == _targets[co.id]
      previousURL == tg[o].url
      b1 == Target_targetInfoChanged(Popped, o, InfoOf(co))
  IN /\ Runs("targetInfoChanged", "start")
     /\ IF o = None
        THEN /\ ApplyBs(Popped)
             /\ bop' = BOp("targetInfoChanged", co.id, None, "BrowserError")
        ELSE /\ bop' = BOp("targetInfoChanged", co.id, o, "none")
             /\ IF previousURL # b1.tg[o].url
                THEN ApplyBs(emitBoth(b1, "targetchanged", o, tg[o].ctx))
                ELSE ApplyBs(b1)
     /\ UNCHANGED <<_contexts, nContexts, bc, listeners, cp, sent>>
     /\ FrameUnchanged

\* targets() without the filter on the initialization
targetsRegistered == {o \in TObjs : \E i \in TargetIds : _targets[i] = o}

\* Chrome.targets()
targets == {o \in TObjs : \E i \in TargetIds : _targets[i] = o /\ tg[o].isInitialized}

\* BrowserContext.targets()
contextTargets(c) == {o \in targets : tg[o].ctx = c}

\* the least element of a set of object numbers
Min(S) == CHOOSE x \in S : \A y \in S : x <= y

\* waitForTarget's loop over the registry with the test on the
\* initialization left out
existingAny(pred) ==
  {o \in TObjs : \E i \in TargetIds : _targets[i] = o /\ tg[o].id \in pred}

\* waitForTarget's loop over the registry: the registered targets that are
\* initialized and satisfy the predicate (a predicate is the set of target
\* ids it is true of)
existingTargets(pred) ==
  {o \in TObjs : \E i \in TargetIds :
     _targets[i] = o /\ tg[o].isInitialized /\ tg[o].id \in pred}

\* Chrome.waitForTarget(predicate, timeout) up to its return or its await:
\* the registry is a dict, whose order is that of the Target objects'
\* construction; the timeout is "none" or "finite"
waitForTarget(w, pred, timeout) ==
  LET found == existingTargets(pred)
  IN /\ wt[w].state = "none"
     /\ \A u \in Waits : u < w => wt[u].state # "none"
     /\ bop' = BOp("waitForTarget", w, None, "none")
     /\ IF found # {}
        THEN /\ wt' = [wt EXCEPT ![w] =
                         [NoWait EXCEPT !.state = "returned", !.pred = pred,
                                        !.timeout = timeout,
                                        !.ret = Min(found),
                                        !.before = Len(listeners),
                                        !.immediate = TRUE]]
             /\ UNCHANGED listeners
        ELSE /\ wt' = [wt EXCEPT ![w] =
                         [NoWait EXCEPT !.state = "waiting", !.pred = pred,
                                        !.timeout = timeout,
                                        !.promise = "pending",
                                        !.before = Len(listeners),
                                        !.timer = IF timeout = "none"
                                                  THEN "none" ELSE "armed"]]
             /\ listeners' = listeners \o <<Listener(w, "targetcreated"),
                                            Listener(w, "targetchanged")>>
     /\ UNCHANGED <<_targets, nTargets, tg, _contexts, nContexts, bc, ready,
                    cp, sent, bemitted>>
     /\ FrameUnchanged

\* the timeout without the promise's done callback
WaitTimerFireNoCallback(w) ==
  /\ wt[w].state = "waiting"
  /\ wt[w].timer = "armed"
  /\ bop' = BOp("waitTimer", w, None, "none")
  /\ IF wt[w].promise = "pending"
     THEN /\ wt' = [wt EXCEPT ![w].timer = "fired", ![w].promise = "cancelled"]
          /\ ready' = ready \o <<WaitCo("waitForTarget", w)>>
     ELSE /\ wt' = [wt EXCEPT ![w].timer = "fired", ![w].mustCancel = TRUE]
          /\ UNCHANGED ready
  /\ UNCHANGED <<_targets, nTargets, tg, _contexts, nContexts, bc, listeners,
                 cp, sent, bemitted>>
  /\ FrameUnchanged

\* the timeout of waitForTarget elapses: the awaiting task is cancelled,
\* which cancels the promise it awaits (its done callback and the task become
\* ready) unless the promise is resolved already
WaitTimerFire(w) ==
  /\ wt[w].state = "waiting"
  /\ wt[w].timer = "armed"
  /\ bop' = BOp("waitTimer", w, None, "none")
  /\ IF wt[w].promise = "pending"
     THEN /\ wt' = [wt EXCEPT ![w].timer = "fired", ![w].promise = "cancelled"]
          /\ ready' = ready \o <<WaitCo("removeListeners", w),
                                 WaitCo("waitForTarget", w)>>
     ELSE /\ wt' = [wt EXCEPT ![w].timer = "fired", ![w].mustCancel = TRUE]
          /\ UNCHANGED ready
  /\ UNCHANGED <<_targets, nTargets, tg, _contexts, nContexts, bc, listeners,
                 cp, sent, bemitted>>
  /\ FrameUnchanged

\* the done callback of waitForTarget's promise:
\* Helper.removeEventListeners(listeners)
removeListeners ==
  LET w == Head(ready).n
  IN /\ Runs("removeListeners", "resume")
     /\ ready' = Tail(ready)
     /\ listeners' = SelectSeq(listeners, LAMBDA l : l.w # w)
     /\ bop' = BOp("removeListeners", w, None, "none")
     /\ UNCHANGED <<_targets, nTargets, tg, _contexts, nContexts, bc, wt, cp,
                    sent, bemitted>>
     /\ FrameUnchanged

\* Chrome.waitForTarget woken: by its promise's result, or by the
\* cancellation of the timeout, which it turns into "no target"
waitForTargetResumed ==
  LET w == Head(ready).n
      timedOut == wt[w].promise = "cancelled" \/ wt[w].mustCancel
  IN /\ Runs("waitForTarget", "resume")
     /\ ready' = Tail(ready)
     /\ wt' = [wt EXCEPT ![w].state = "returned",
                         ![w].ret = IF timedOut THEN None ELSE wt[w].res,
                         ![w].timer = IF @ = "armed" THEN "cancelled" ELSE @]
     /\ bop' = BOp("waitForTargetResumed", w, None, "none")
     /\ UNCHANGED <<_targets, nTargets, tg, _contexts, nContexts, bc,
                    listeners, cp, sent, bemitted>>
     /\ FrameUnchanged

\* a protocol call sent by the call n, awaiting its response
Call(method, ctx, n) == [method |-> method, ctx |-> ctx, n |-> n]

\* a callback of the createPageInContext call c
PageCo(pc, c, i, o) == Co("createPage", pc, i, None, "", FALSE, o, c)

\* Chrome.createPageInContext(contextId) up to its await of the response to
\* Target.createTarget
createPageInContext(c, contextId) ==
  /\ cp[c].state = "none"
  /\ \A u \in Pages : u < c => cp[u].state # "none"
  /\ cp' = [cp EXCEPT ![c].state = "awaitResponse", ![c].ctx = contextId]
  /\ sent' = Append(sent, Call("Target.createTarget", contextId, c))
  /\ bop' = BOp("createPageInContext", c, None, "none")
  /\ UNCHANGED <<_targets, nTargets, tg, _contexts, nContexts, bc, ready,
                 listeners, wt, bemitted>>
  /\ FrameUnchanged

\* the connection resolves the call's future with the response, the id of
\* the created target: the awaiting call becomes ready
CreateTargetResponse(c, targetId) ==
  /\ \E k \in 1..Len(sent) :
       /\ sent[k] = Call("Target.createTarget", cp[c].ctx, c)
       /\ sent' = SubSeq(sent, 1, k - 1) \o SubSeq(sent, k + 1, Len(sent))
  /\ cp[c].state = "awaitResponse"
  /\ cp' = [cp EXCEPT ![c].state = "gotResponse", ![c].target = targetId]
  /\ ready' = Append(ready, PageCo("gotResponse", c, targetId, None))
  /\ bop' = BOp("createTargetResponse", c, None, "none")
  /\ UNCHANGED <<_targets, nTargets, tg, _contexts, nContexts, bc, listeners,
                 wt, bemitted>>
  /\ FrameUnchanged

\* createPageInContext going on to target.page() whatever the
\* initialization resolved to
AfterInitAnyway(pages, c, o, value) ==
  [pages EXCEPT ![c].state = "awaitPage", ![c].obj = o]

\* createPageInContext after await target._initializedPromise: a false
\* outcome raises, a true one goes on to await target.page()
AfterInit(pages, c, o, value) ==
  IF value = "true"
  THEN [pages EXCEPT ![c].state = "awaitPage", ![c].obj = o]
  ELSE [pages EXCEPT ![c].state = "failed", ![c].obj = o,
                     ![c].exc = "BrowserError"]

\* createPageInContext woken by the response: it looks the target up in the
\* registry and awaits its initialization
createPageGotResponse ==
  LET co == Head(ready)
      c == co.n
      o == _targets[co.id]
  IN /\ Runs("createPage", "gotResponse")
     /\ IF o = None
        THEN /\ cp' = [cp EXCEPT ![c].state = "failed",
                                 ![c].exc = "AttributeError"]
             /\ ready' = Tail(ready)
             /\ bop' = BOp("createPageGotResponse", c, None, "AttributeError")
             /\ UNCHANGED tg
        ELSE IF tg[o].init = "pending"
        THEN /\ cp' = [cp EXCEPT ![c].state = "awaitInit", ![c].obj = o]
             /\ tg' = [tg EXCEPT ![o].waiters =
                         Append(@, PageCo("awaitInit", c, co.id, o))]
             /\ ready' = Tail(ready)
             /\ bop' = BOp("createPageGotResponse", c, o, "none")
        ELSE /\ cp' = AfterInit(cp, c, o, tg[o].init)
             /\ ready' = Tail(ready)
             /\ bop' = BOp("createPageGotResponse", c, o, cp'[c].exc)
             /\ UNCHANGED tg
     /\ UNCHANGED <<_targets, nTargets, _contexts, nContexts, bc, listeners,
                    wt, sent, bemitted>>
     /\ FrameUnchanged

\* createPageInContext woken by the initialization it awaited
createPageResumed ==
  LET co == Head(ready)
      c == co.n
  IN /\ Runs("createPage", "awaitInit")
     /\ cp' = AfterInit(cp, c, co.obj, tg[co.obj].init)
     /\ ready' = Tail(ready)
     /\ bop' = BOp("createPageResumed", c, co.obj, cp'[c].exc)
     /\ UNCHANGED <<_targets, nTargets, tg, _contexts, nContexts, bc,
                    listeners, wt, sent, bemitted>>
     /\ FrameUnchanged

\* createPageInContext returns the page target.page() gave it
createPageReturned(c) ==
  /\ cp[c].state = "awaitPage"
  /\ cp' = [cp EXCEPT ![c].state = "returned"]
  /\ bop' = BOp("createPageReturned", c, cp[c].obj, "none")
  /\ UNCHANGED <<_targets, nTargets, tg, _contexts, nContexts, bc, ready,
                 listeners, wt, sent, bemitted>>
  /\ FrameUnchanged

\* a callback of a call about the browser context with id i, object b
ContextCo(kind, i, b) == Co(kind, "gotResponse", None, i, "", FALSE, b, None)

\* the calls to Target.createBrowserContext sent and not answered
Creating == {k \in 1..Len(sent) : sent[k].method = "Target.createBrowserContext"}

\* Chrome.createIncognitoBrowserContext() up to its await of the response
createIncognitoBrowserContext ==
  /\ nContexts + Cardinality(Creating) + Cardinality(Starting("newContext"))
       < MaxContextObjs
  /\ sent' = Append(sent, Call("Target.createBrowserContext", None, None))
  /\ bop' = BOp("createIncognitoBrowserContext", None, None, "none")
  /\ UNCHANGED <<_targets, nTargets, tg, _contexts, nContexts, bc, ready,
                 listeners, wt, cp, bemitted>>
  /\ FrameUnchanged

\* the connection answers a call about a browser context, sent[k]: the
\* coroutine that awaits the response becomes ready
ContextResponse(k, contextId) ==
  /\ k \in 1..Len(sent)
  /\ sent[k].method \in {"Target.createBrowserContext",
                         "Target.disposeBrowserContext"}
  /\ sent[k].method = "Target.disposeBrowserContext" => contextId = sent[k].ctx
  /\ sent' = SubSeq(sent, 1, k - 1) \o SubSeq(sent, k + 1, Len(sent))
  /\ ready' = Append(ready,
       [ContextCo(IF sent[k].method = "Target.createBrowserContext"
                  THEN "newContext" ELSE "disposeContext", contextId, None)
          EXCEPT !.pc = "start"])
  /\ bop' = BOp("contextResponse", None, None, "none")
  /\ UNCHANGED <<_targets, nTargets, tg, _contexts, nContexts, bc, listeners,
                 wt, cp, bemitted>>
  /\ FrameUnchanged

\* _disposeContext sending the dispose call whatever the id
_disposeContextAlways(calls, contextId) ==
  Append(calls, Call("Target.disposeBrowserContext", contextId, None))

\* Chrome._disposeContext(contextId) up to its await of the response:
\* nothing for no id
_disposeContext(calls, contextId) ==
  IF contextId # None
  THEN Append(calls, Call("Target.disposeBrowserContext", contextId, None))
  ELSE calls

\* Chrome.createIncognitoBrowserContext woken by the response: the new
\* BrowserContext is registered under its id; Chrome._disposeContext woken
\* by the response: del self._contexts[contextId]
ContextAnswered ==
  LET co == Head(ready)
      o == nContexts + 1
  IN /\ ready # <<>>
     /\ Head(ready).kind \in {"newContext", "disposeContext"}
     /\ ready' = Tail(ready)
     /\ IF co.kind = "newContext"
        THEN /\ nContexts' = o
             /\ bc' = [bc EXCEPT ![o] = BrowserContext(co.ctx)]
             /\ _contexts' = [_contexts EXCEPT ![co.ctx] = o]
             /\ bop' = BOp("createIncognitoBrowserContext", co.ctx, o, "none")
        ELSE /\ _contexts' = [_contexts EXCEPT ![co.ctx] = None]
             /\ bop' = BOp("_disposeContext", co.ctx, None,
                           IF _contexts[co.ctx] = None THEN "KeyError"
                           ELSE "none")
             /\ UNCHANGED <<nContexts, bc>>
     /\ UNCHANGED <<_targets, nTargets, tg, listeners, wt, cp, sent, bemitted>>
     /\ FrameUnchanged

\* BrowserContext.close() of the BrowserContext object b
close(b) ==
  LET cntx == IF b = DefaultContext THEN None ELSE bc[b].id
  IN /\ bc[b].made
     /\ sent' = IF cntx # None THEN sent ELSE _disposeContext(sent, cntx)
     /\ bop' = BOp("close", bc[b].id, b, "none")
     /\ UNCHANGED <<_targets, nTargets, tg, _contexts, nContexts, bc, ready,
                    listeners, wt, cp, bemitted>>
     /\ FrameUnchanged

\* BrowserContext.isIncognito() of the BrowserContext object b
isIncognito(b) == bc[b].id # None

\* Chrome.browserContexts()
browserContexts ==
  {DefaultContext} \cup ({_contexts[i] : i \in BCtxIds} \ {None})

\* ---------------------------------------------------------- specifications
\* After FrameManager.__init__, whose _handleFrameTree has delivered a frame
\* tree of one frame, url "a": as the main frame when the payload has no
\* parentId, through _onFrameAttached and the non-main branch of
\* _onFrameNavigated when it has one (mainFrame then stays None).
BrowserConstructed(browserContextId) ==
  /\ _targets = [i \in TargetIds |-> None]
  /\ nTargets = 0
  /\ tg = [o \in TObjs |-> NoTarget]
  /\ _contexts = [i \in BCtxIds |-> None]
  /\ nContexts = 1
  /\ bc = [c \in BCObjs |->
             IF c = DefaultContext THEN BrowserContext(browserContextId)
             ELSE NoContext]
  /\ ready = <<>>
  /\ listeners = <<>>
  /\ wt = [w \in Waits |-> NoWait]
  /\ cp = [c \in Pages |-> NoPage]
  /\ sent = <<>>
  /\ bemitted = <<>>
  /\ bop = BOp("init", None, None, "none")

FramesConstructed(main) ==
  /\ frames = [i \in FrameIds |-> IF i = 1 THEN 1 ELSE None]
  /\ mainFrame \in main
  /\ nObjs = 1
  /\ fr = [o \in Objs |->
             IF o = 1 THEN _navigated(NewFrame(1, None), "a", "") ELSE NoFrame]
  /\ contexts = <<>>
  /\ tk = [t \in Tasks |-> NoTask]
  /\ runs = {}
  /\ emitted = <<>>
  /\ lastOp = Op("init", None, None, "none")

\* FrameManager and Chrome constructed, the latter without targetInfo: the
\* default BrowserContext has no id
Constructed(main) == FramesConstructed(main) /\ BrowserConstructed(None)

FrameInit == Constructed({1, None})

Init == Constructed({1})

Names == {""}

PollingInputs ==
  {Str("raf"), Str("mutation"), Str("fast"), Num(100), Num(0), Num(-5), Other}

TimeoutInputs == {"positive", "zero", "negative", "none"}

FrameAttached == \E i \in FrameIds, p \in FrameIds \cup {None} : _onFrameAttached(i, p)

FrameNavigated ==
  \E i \in FrameIds, p \in {None, 1}, u \in {"a"}, n \in Names :
    _onFrameNavigated(i, p, u, n)

FrameDetached == \E i \in FrameIds : _onFrameDetached(i)

NavigatedWithinDocument ==
  \E i \in FrameIds, u \in {"a"} : _onNavigatedWithinDocument(i, u)

NewWaitTask ==
  \E t \in Tasks, o \in Objs, p \in PollingInputs, x \in TimeoutInputs :
    WaitTask(t, o, p, x)

Timer == \E t \in Tasks : TimerFire(t) \/ TimerFail(t)

Rerun ==
  \/ \E t \in Tasks : RerunStart(t)
  \/ \E run \in runs : RerunGotContext(run)
  \/ \E run \in runs, outcome \in EvalOutcomes : RerunEvaluated(run, outcome)
  \/ \E run \in runs : RerunDisposed(run)
  \/ \E run \in runs, raised \in BOOLEAN : RerunChecked(run, raised)

\* The frame tree alone: the frame notifications in every order.
FrameNext ==
  \/ FrameAttached
  \/ FrameNavigated
  \/ FrameDetached
  \/ NavigatedWithinDocument

FrameSpec == FrameInit /\ [][FrameNext]_vars

\* The polling engine: wait tasks on the frame the manager was constructed
\* with and on a child of it, the first frame's default context coming and
\* going (the child never gets one), their detachment, the timers and the
\* reruns.
Next ==
  \/ _onFrameAttached(2, 1)
  \/ \E i \in {1, 2} : _onFrameDetached(i)
  \/ _onExecutionContextCreated(1, 1, TRUE)
  \/ _onExecutionContextDestroyed(1)
  \/ _onExecutionContextsCleared
  \/ \E t \in Tasks, o \in {1, 2}, p \in {Str("raf"), Num(0)},
        x \in {"positive", "zero", "none"} : WaitTask(t, o, p, x)
  \/ Timer
  \/ Rerun

Spec == Init /\ [][Next]_vars

\* The timer of asyncio fires unless it is cancelled first.
FairSpec == Spec /\ \A t \in Tasks : WF_vars(TimerFire(t))

\* Tear-down against wait tasks: a child frame attached, either frame
\* navigated or detached, the first frame's default context bound, and wait
\* tasks on both frames with their timers and reruns.
TearNext ==
  \/ _onFrameAttached(2, 1)
  \/ \E i \in {1, 2} : _onFrameDetached(i)
  \/ \E i \in {1, 2} : _onFrameNavigated(i, IF i = 1 THEN None ELSE 1, "a", "")
  \/ _onExecutionContextCreated(1, 1, TRUE)
  \/ \E t \in Tasks, o \in {1, 2} : WaitTask(t, o, Str("raf"), "positive")
  \/ \E t \in Tasks : TimerFire(t)
  \/ Rerun

TearSpec == Init /\ [][TearNext]_vars

\* The default-context slot: contexts of the first frame, default or not,
\* created under an id no live context has, destroyed and cleared in every
\* order under two ids, the frame, which is the main frame, navigated to a
\* new id, and wait tasks on it whose reruns call executionContext().
BindNext ==
  \/ \E id \in CtxIds, isDefault \in BOOLEAN :
       /\ \A i \in 1..Len(contexts) : contexts[i].id # id
       /\ _onExecutionContextCreated(id, 1, isDefault)
  \/ \E id \in CtxIds : _onExecutionContextDestroyed(id)
  \/ _onExecutionContextsCleared
  \/ _onFrameNavigated(2, None, "a", "")
  \/ \E t \in Tasks : WaitTask(t, 1, Str("raf"), "positive")
  \/ \E t \in Tasks : TimerFire(t)
  \/ Rerun

BindSpec == Init /\ [][BindNext]_vars

\* a context the registry holds
Live(c) == \E i \in 1..Len(contexts) : contexts[i].id = c

\* what context.evaluateHandle gives a rerun when the predicate is truthy in
\* every context: the handle, or the NetworkError of a context that is gone
Answer(run) ==
  IF run.ctx # None /\ Live(run.ctx) THEN "truthy" ELSE "destroyed"

\* whether the evaluate of "s => !s" raises: its context is gone, or the
\* handle is another context's
Raises(run) == ~(run.ctx # None /\ Live(run.ctx)) \/ run.handle # run.ctx

\* Reruns against a predicate that is truthy in every context: the main
\* frame's default contexts created under fresh ids for the id the frame has
\* or had, destroyed and cleared, the frame navigated to a new id, and a wait
\* task without deadline on it.
TruthyNext ==
  \/ \E id \in CtxIds, frameId \in {1, 2} :
       /\ ~Live(id)
       /\ _onExecutionContextCreated(id, frameId, TRUE)
  \/ \E id \in CtxIds : _onExecutionContextDestroyed(id)
  \/ _onExecutionContextsCleared
  \/ _onFrameNavigated(2, None, "a", "")
  \/ \E t \in Tasks : WaitTask(t, 1, Str("raf"), "none")
  \/ \E t \in Tasks : TimerFail(t)
  \/ \E t \in Tasks : RerunStart(t)
  \/ \E run \in runs : RerunGotContext(run)
  \/ \E run \in runs : RerunEvaluated(run, Answer(run))
  \/ \E run \in runs : RerunDisposed(run)
  \/ \E run \in runs : RerunChecked(run, Raises(run))

\* The event loop runs every scheduled rerun and every evaluation is
\* answered; the notifications may stop at any point.
TruthySpec ==
  /\ Init /\ [][TruthyNext]_vars
  /\ \A t \in Tasks : WF_vars(RerunStart(t))
  /\ WF_vars(\E run \in runs : RerunGotContext(run))
  /\ WF_vars(\E run \in runs : RerunEvaluated(run, Answer(run)))
  /\ WF_vars(\E run \in runs : RerunDisposed(run))
  /\ WF_vars(\E run \in runs : RerunChecked(run, Raises(run)))

\* Construction: every polling argument and timeout, then the timer, the
\* start of the first run and the frame's detachment.
ConstructNext ==
  \/ NewWaitTask
  \/ Timer
  \/ \E t \in Tasks : RerunStart(t)
  \/ _onFrameDetached(1)

ConstructSpec == Init /\ [][ConstructNext]_vars

\* the notifications about one target id, created, destroyed and created
\* again, with infos that do and do not complete the initialization and that
\* do and do not change the url, in every order
TargetNotified ==
  \E kind \in {"targetCreated", "targetDestroyed", "targetInfoChanged"},
     i \in {1}, c \in {None}, u \in {"a", "b"}, init \in BOOLEAN :
    /\ kind = "targetDestroyed" => (u = "a" /\ ~init)
    /\ kind = "targetCreated" => u = "a"
    /\ Notify(kind, TargetInfo(i, c, u, init))

\* The target registry: the notifications and the handlers' tasks.
TargetNext ==
  \/ TargetNotified
  \/ _targetCreated
  \/ _targetCreatedResumed
  \/ _targetDestroyed
  \/ targetInfoChanged

TargetSpec == Init /\ [][TargetNext]_vars

\* waitForTarget: calls with a predicate true of target 1 and with one true
\* of target 2, which never comes, with and without a timeout, among the
\* notifications about target 1.
WaitNotified ==
  \/ \E init \in BOOLEAN :
       Notify("targetCreated", TargetInfo(1, None, "a", init))
  \/ Notify("targetDestroyed", TargetInfo(1, None, "a", FALSE))
  \/ Notify("targetInfoChanged", TargetInfo(1, None, "b", TRUE))

WaitCalled ==
  \E w \in Waits, pred \in {{1}, {2}}, timeout \in {"none", "finite"} :
    waitForTarget(w, pred, timeout)

WaitNext ==
  \/ WaitNotified
  \/ _targetCreated
  \/ _targetCreatedResumed
  \/ _targetDestroyed
  \/ targetInfoChanged
  \/ WaitCalled
  \/ \E w \in Waits : WaitTimerFire(w)
  \/ removeListeners
  \/ waitForTargetResumed

WaitSpec == Init /\ [][WaitNext]_vars

\* createPageInContext: the call, the response to it, and the notifications
\* about the created target, in every order.
PageNext ==
  \/ WaitNotified
  \/ _targetCreated
  \/ _targetCreatedResumed
  \/ _targetDestroyed
  \/ targetInfoChanged
  \/ \E c \in Pages : createPageInContext(c, None)
  \/ \E c \in Pages : CreateTargetResponse(c, 1)
  \/ createPageGotResponse
  \/ createPageResumed
  \/ \E c \in Pages : createPageReturned(c)

PageSpec == Init /\ [][PageNext]_vars

\* The browser contexts: incognito contexts created and closed, the default
\* context closed, among the notifications about a target of the default
\* context or of the incognito context.
ContextNotified ==
  \/ \E c \in {None} \cup BCtxIds, init \in BOOLEAN :
       Notify("targetCreated", TargetInfo(1, c, "a", init))
  \/ Notify("targetDestroyed", TargetInfo(1, None, "a", FALSE))
  \/ Notify("targetInfoChanged", TargetInfo(1, None, "b", TRUE))

ContextNext ==
  \/ ContextNotified
  \/ _targetCreated
  \/ _targetCreatedResumed
  \/ _targetDestroyed
  \/ targetInfoChanged
  \/ createIncognitoBrowserContext
  \/ \E k \in 1..Len(sent), i \in BCtxIds : ContextResponse(k, i)
  \/ ContextAnswered
  \/ \E b \in BCObjs : close(b)

ContextSpec == Init /\ [][ContextNext]_vars

\* the values of targetInfo.get("browserContextId") Chrome is constructed
\* with: none (no targetInfo, or one without the key), or the id of the
\* browser context the connected target lives in
DefaultIds == {None, 2}

\* Chrome constructed with or without a targetInfo that carries a
\* browserContextId
ConnectInit ==
  /\ FramesConstructed({1})
  /\ \E browserContextId \in DefaultIds : BrowserConstructed(browserContextId)

ConnectSpec == ConnectInit /\ [][ContextNext]_vars

\* ------------------------------------------------------------------ claims
Made == {t \in Tasks : tk[t].frame # None}

Resolved(t) == tk[t].promise.state # "pending"

\* C1: a WaitTask's outcome is set exactly once; a rerun, terminate or timer
\* that reaches an already resolved task neither sets the outcome again nor
\* runs cleanup again, and the attempt is a no-op, not an error (no rerun
\* raises InvalidStateError from a second set_result, no cleanup raises
\* KeyError from a second removal).
C1_ResolvedOnceWithoutError ==
  \A t \in Made : tk[t].fault = "none"

\* C2: only the run holding the latest run-counter value resolves the task:
\* an outcome set by a rerun was set by the run whose counter snapshot was
\* the task's run counter at that moment.
C2_OnlyLatestRunResolves ==
  \A t \in Made : tk[t].promise.by # 0 => tk[t].promise.by = tk[t].promise.latest

Tracked == {frames[i] : i \in FrameIds} \ {None}

\* C3: handling frameDetached for a tracked frame with N descendants emits
\* exactly N+1 FrameDetached events, one per frame of the subtree, each
\* descendant's before its ancestors', and afterwards frame(id) is none for
\* the ids of all N+1 frames.
C3_DetachEmitsSubtreePostOrder ==
  [][(lastOp'.op = "frameDetached" /\ frames[lastOp'.a] # None) =>
       LET top == frames[lastOp'.a]
           sub == Descendants(fr, top) \cup {top}
           n == Len(emitted')
       IN /\ n = Cardinality(Descendants(fr, top)) + 1
          /\ \A i \in 1..n : emitted'[i].ev = "framedetached"
          /\ {emitted'[i].frame : i \in 1..n} = sub
          /\ \A i, j \in 1..n :
               emitted'[i].frame \in Descendants(fr, emitted'[j].frame) => i < j
          /\ \A o \in sub : frames'[fr[o].id] = None]_vars

\* a frameDetached just handled for a frame that had two descendants
C3_Witness ==
  /\ lastOp.op = "frameDetached"
  /\ Len(emitted) = 3
  /\ \A i \in 1..3 : fr[emitted[i].frame].detached

RECURSIVE Climb(_, _)
\* the object k parent links above o (None once a root is passed)
Climb(o, k) ==
  IF o = None \/ k = 0 THEN o ELSE Climb(fr[o].parent, k - 1)

\* C4: the parent relation over tracked frames has no cycle, every tracked
\* frame that has a parent is in that parent's child set, and every member
\* of a tracked frame's child set names that frame as its parent.
C4_TreeConsistent ==
  \A o \in Tracked :
    /\ Climb(o, MaxFrameObjs) = None
    /\ fr[o].parent # None => o \in fr[fr[o].parent].children
    /\ \A c \in fr[o].children : fr[c].parent = o

\* a tracked grandchild, after a detach has already been handled
C4_Witness ==
  /\ \E o \in Tracked :
       /\ fr[o].parent # None
       /\ fr[fr[o].parent].parent # None
  /\ \E o \in 1..nObjs : fr[o].detached

\* C5: a main-frame frameNavigated whose payload id differs from the main
\* frame's id keeps the same Frame object as the main frame; afterwards
\* frame(newId) is that object, its id is newId and frame(oldId) is none.
C5_MainFrameIdentityKept ==
  [][(/\ lastOp'.op = "frameNavigated"
      /\ lastOp'.b = None
      /\ mainFrame # None
      /\ lastOp'.a # fr[mainFrame].id) =>
       /\ mainFrame' = mainFrame
       /\ frames'[lastOp'.a] = mainFrame
       /\ fr'[mainFrame].id = lastOp'.a
       /\ frames'[fr[mainFrame].id] = None]_vars

\* the Frame constructed under id 1 is the main frame, now tracked under 2
C5_Witness ==
  /\ lastOp.op = "frameNavigated"
  /\ lastOp.a = 2
  /\ mainFrame = 1
  /\ frames[2] = 1
  /\ fr[1].id = 2

\* the frames the step's FrameDetached events name
TornDown == {emitted'[i].frame : i \in 1..Len(emitted')}

\* C6: a WaitTask still pending when its frame is detached resolves with the
\* frame-detached error and its timer is cancelled by the detachment; from
\* then on the outcome stays the frame-detached error and the timer never
\* fires.
C6_DetachedNotTimeout ==
  [][\A t \in Made :
       /\ (/\ lastOp'.op = "frameDetached"
           /\ tk[t].frame \in TornDown
           /\ ~Resolved(t)) =>
            /\ tk'[t].promise.state = "exception"
            /\ tk'[t].promise.val = "detached"
            /\ tk'[t].timer \in {"cancelled", "failed"}
            /\ ~tk'[t].timeoutError
       /\ tk[t].promise.val = "detached" =>
            /\ tk'[t].promise = tk[t].promise
            /\ tk'[t].timer = tk[t].timer
            /\ ~tk'[t].timeoutError]_vars

\* a task with a deadline, torn down with its frame while a run of it was
\* still evaluating
C6_Witness ==
  \E t \in Made :
    /\ tk[t].timeout = "positive"
    /\ tk[t].promise.val = "detached"
    /\ tk[t].timer = "cancelled"
    /\ \E run \in runs : run.t = t /\ run.pc = "evalHandle"

NoDeadline == {"zero", "negative", "none"}

\* C7: a WaitTask constructed with timeout 0, a negative timeout or none has
\* no deadline: its timer never fires and it never resolves with a timeout
\* error.
C7_NoDeadlineNeverTimesOut ==
  \A t \in Made :
    tk[t].timeout \in NoDeadline =>
      /\ tk[t].timer # "fired"
      /\ ~tk[t].timeoutError
      /\ tk[t].promise.val # "timeout"

\* C8: a WaitTask with a positive timeout eventually resolves with a timeout
\* error, unless its frame is detached (the frame-detached error), its
\* predicate evaluates truthy (a value) or an evaluation fails for good (that
\* error) first; falsy values, retryable context races and a frame that never
\* gets a context do not keep it pending.
C8_PositiveTimeoutFires ==
  \A t \in Tasks :
    (tk[t].frame # None /\ tk[t].timeout = "positive")
      ~> (\/ tk[t].promise.val = "timeout"
          \/ tk[t].promise.val \in {"detached", "value", "error"})

\* a task timed out on the child frame, which never had a context, and one
\* timed out after a run of it had started
C8_Witness ==
  \E t \in Made :
    /\ tk[t].timeout = "positive"
    /\ tk[t].promise.val = "timeout"
    /\ tk[t].timer = "fired"
    /\ tk[t].runCount >= 1

\* the polling arguments the constructor must refuse
Refused(polling) ==
  \/ polling.kind = "num" /\ polling.n <= 0
  \/ polling.kind = "str" /\ polling.s # "raf" /\ polling.s # "mutation"
  \/ polling.kind = "other"

\* C9: constructing a WaitTask with a numeric interval <= 0, a string other
\* than "raf" or "mutation", or a value neither string nor number raises the
\* invalid-argument error and leaves the frame's wait-task set, the tasks and
\* the runs as they were (no timer, no run); with "raf", "mutation" or an
\* interval > 0 it succeeds, the task is in its frame's wait-task set, its
\* timer is armed and its first run is scheduled.
C9_ConstructionValidatesPolling ==
  [][lastOp'.op = "WaitTask" =>
       LET t == lastOp'.a
       IN IF Refused(lastOp'.polling)
          THEN /\ lastOp'.exc = "ValueError"
               /\ UNCHANGED <<fr, tk, runs>>
          ELSE /\ lastOp'.exc = "none"
               /\ tk[t].frame = None
               /\ tk'[t].frame = lastOp'.b
               /\ t \in fr'[tk'[t].frame].waitTasks
               /\ tk'[t].timer = "armed"
               /\ tk'[t].sched = 1]_vars

\* a construction refused for the interval 0
C9_Witness ==
  /\ lastOp.op = "WaitTask"
  /\ lastOp.polling = Num(0)
  /\ lastOp.exc = "ValueError"
  /\ Made = {}

\* C10: a WaitTask whose first evaluation, in the frame's bound context,
\* yields a truthy value resolves with that value, not with a timeout error;
\* its timer is then cancelled and it is out of its frame's wait-task set.
\* (The frame's detachment, which terminates the task, is left aside.)
C10_FirstTruthyResolves ==
  \A t \in Made :
    (tk[t].firstTruthy /\ Resolved(t) /\ tk[t].promise.val # "detached") =>
      /\ tk[t].promise.state = "result"
      /\ tk[t].timer \in {"cancelled", "failed"}
      /\ t \notin fr[tk[t].frame].waitTasks

\* the rerun the step has taken to its next suspension or to its end
Stepped == runs \ runs'

\* C11: a rerun whose evaluation fails because the context was destroyed or
\* its id is unknown, or yields a falsy value, leaves the task as it was:
\* outcome, timer and membership of the frame's wait-task set unchanged, no
\* error raised; any other evaluation error met by the current run of a
\* pending task resolves the task with that error.
C11_RetryableLeavesTaskPending ==
  [][lastOp'.op = "rerun" =>
       LET t == lastOp'.a
       IN /\ lastOp'.outcome \in {"destroyed", "nocontext", "falsy", "isFalsy"} =>
               /\ tk'[t].promise = tk[t].promise
               /\ tk'[t].timer = tk[t].timer
               /\ tk'[t].fault = tk[t].fault
               /\ fr' = fr
               /\ lastOp'.exc = "none"
          /\ lastOp'.outcome = "error" =>
               \A run \in Stepped :
                 (~Resolved(t) /\ ~Stale(tk[t], run)) =>
                    /\ tk'[t].promise.state = "exception"
                    /\ tk'[t].promise.val = "error"]_vars

\* the run of a pending task has ended in a race with the context's
\* destruction: the task is still pending, registered and armed
C11_Witness ==
  \E t \in Made :
    /\ lastOp.op = "rerun"
    /\ lastOp.a = t
    /\ lastOp.outcome = "nocontext"
    /\ ~Resolved(t)
    /\ tk[t].runCount = 1
    /\ runs = {}
    /\ t \in fr[tk[t].frame].waitTasks
    /\ tk[t].timer = "armed"

\* C12: frameAttached for a frame id that is already tracked is a no-op: the
\* registry, every Frame object (parent, children, the object tracked for
\* the id) and the main frame are unchanged and no FrameAttached event is
\* emitted.
C12_AttachTrackedIsNoOp ==
  [][(lastOp'.op = "frameAttached" /\ frames[lastOp'.a] # None) =>
       /\ UNCHANGED <<frames, fr, mainFrame, nObjs>>
       /\ emitted' = <<>>]_vars

\* frameAttached delivered again for a tracked child frame that has a child
\* of its own
C12_Witness ==
  /\ lastOp.op = "frameAttached"
  /\ emitted = <<>>
  /\ frames[lastOp.a] # None
  /\ fr[frames[lastOp.a]].parent # None
  /\ fr[frames[lastOp.a]].children # {}

\* the Target objects in the registry
Registered == {o \in TObjs : \E i \in TargetIds : _targets[i] = o}

\* the events emitted so far for the Target object o
EventsOf(o) == {bemitted[i].ev : i \in {j \in 1..Len(bemitted) : bemitted[j].target = o}}

\* C13: targetCreated for a target id that is already registered raises the
\* consistency error, leaves the registry entry bound to the Target object
\* registered before, that object as it was, and emits nothing.
C13_DuplicateTargetRejected ==
  [][(bop'.op = "targetCreated" /\ _targets[bop'.id] # None) =>
       /\ bop'.exc = "BrowserError"
       /\ _targets' = _targets
       /\ tg'[_targets[bop'.id]] = tg[_targets[bop'.id]]
       /\ bemitted' = bemitted]_vars

\* targetCreated refused for the id of a target that is still initializing
C13_Witness ==
  /\ bop.op = "targetCreated"
  /\ bop.exc = "BrowserError"
  /\ _targets[bop.id] \notin {None, bop.obj}
  /\ tg[_targets[bop.id]].init = "pending"

\* C14: targets() is exactly the set of registered targets whose
\* initialization has resolved true, and a context's targets() the ones of
\* them it owns: no target initializing, resolved false or destroyed.
C14_TargetsAreInitialized ==
  /\ targets = {o \in Registered : tg[o].init = "true"}
  /\ \A c \in BCObjs :
       contextTargets(c) = {o \in Registered : tg[o].init = "true" /\ tg[o].ctx = c}

\* a destroyed target that was initialized, and the target registered under
\* its id after it, still initializing: neither is enumerated
C14_Witness ==
  \E o, p \in TObjs :
    /\ tg[o].closed /\ tg[o].init = "true"
    /\ p \in Registered /\ tg[p].init = "pending"
    /\ targets = {}

\* C15: for a target whose initialization has resolved false no
\* TargetCreated and no TargetDestroyed event has been emitted, on the
\* Browser or on its BrowserContext.
C15_FalseInitEmitsNothing ==
  \A o \in TObjs :
    tg[o].init = "false" =>
      EventsOf(o) \cap {"targetcreated", "targetdestroyed"} = {}

\* the targetCreated handler woken for a target destroyed while it was
\* initializing
C15_Witness ==
  /\ bop.op = "targetCreatedResumed"
  /\ tg[bop.obj].init = "false"
  /\ tg[bop.obj].closed
  /\ EventsOf(bop.obj) = {}

\* C16: targetDestroyed for a registered target removes its id from the
\* registry, fires its closed signal, forces a pending initialization to
\* false, and emits TargetDestroyed, once on the Browser and then once on
\* the target's BrowserContext, exactly when the initialization had resolved
\* true before.
C16_DestroyedEvictsAndEmits ==
  [][(bop'.op = "targetDestroyed" /\ bop'.exc = "none") =>
       LET o == bop'.obj
       IN /\ o = _targets[bop'.id]
          /\ _targets'[bop'.id] = None
          /\ tg'[o].closed
          /\ tg'[o].init = IF tg[o].init = "pending" THEN "false" ELSE tg[o].init
          /\ bemitted' =
               IF tg[o].init = "true"
               THEN bemitted \o <<BEv("targetdestroyed", o, Browser),
                                  BEv("targetdestroyed", o, tg[o].ctx)>>
               ELSE bemitted]_vars

\* an initialized target destroyed
C16_Witness ==
  /\ bop.op = "targetDestroyed"
  /\ bop.exc = "none"
  /\ tg[bop.obj].init = "true"
  /\ Len(bemitted) >= 4
  /\ bemitted[Len(bemitted)] = BEv("targetdestroyed", bop.obj, tg[bop.obj].ctx)

\* the waitForTarget calls made so far
Called == {w \in Waits : wt[w].state # "none"}

\* the listeners the call w has on the Browser
ListenersOf(w) == {i \in 1..Len(listeners) : listeners[i].w = w}

\* C17: a waitForTarget call whose timeout elapses with no target matching
\* returns "no target", without an error, and a call that has returned, on a
\* match or on the timeout, has none of its listeners left on the Browser,
\* which has as many listeners as before the call; once the timeout has
\* elapsed the call is ready to return.
C17_WaitForTargetCleansUp ==
  \A w \in Called :
    /\ wt[w].state = "returned" =>
         /\ ListenersOf(w) = {}
         /\ (Called = {w} => Len(listeners) = wt[w].before)
         /\ wt[w].promise = "cancelled" => wt[w].ret = None
    /\ (wt[w].state = "waiting" /\ wt[w].timer = "fired") =>
         \E i \in 1..Len(ready) : ready[i] = WaitCo("waitForTarget", w)

\* a call for a target that never came has returned on its timeout, while
\* another target was registered and initialized
C17_Witness ==
  \E w \in Called :
    /\ wt[w].state = "returned"
    /\ wt[w].pred = {2}
    /\ wt[w].timer = "fired"
    /\ wt[w].ret = None
    /\ listeners = <<>>
    /\ targets # {}

\* C18: waitForTarget returns at once, registering no listener, exactly when
\* a registered target is initialized and satisfies the predicate, and it
\* returns such a target; otherwise it registers its listeners and waits,
\* also when a registered target that is not yet initialized satisfies the
\* predicate.
C18_ImmediateIffInitializedMatch ==
  [][bop'.op = "waitForTarget" =>
       LET w == bop'.id
           matches == {o \in Registered :
                         tg[o].isInitialized /\ tg[o].id \in wt'[w].pred}
       IN IF matches # {}
          THEN /\ wt'[w].state = "returned"
               /\ wt'[w].ret \in matches
               /\ listeners' = listeners
          ELSE /\ wt'[w].state = "waiting"
               /\ wt'[w].ret = None
               /\ Len(listeners') = Len(listeners) + 2]_vars

\* the call made while the only target that satisfies the predicate is
\* registered and still initializing
C18_Witness ==
  /\ bop.op = "waitForTarget"
  /\ wt[bop.id].state = "waiting"
  /\ \E o \in Registered :
       tg[o].id \in wt[bop.id].pred /\ tg[o].init = "pending"

\* the createPageInContext calls that have their Target object in hand
Holding == {c \in Pages : cp[c].obj # None}

\* C19: createPageInContext goes on to the page, and returns it, only with
\* the initialization of its target resolved true; with the initialization
\* resolved false the call has failed with the fatal error, or is ready to
\* be woken to fail with it; a call that found no target failed too.
C19_PageOnlyAfterInitialized ==
  \A c \in Pages :
    /\ cp[c].state \in {"awaitPage", "returned"} =>
         (c \in Holding /\ tg[cp[c].obj].init = "true")
    /\ (c \in Holding /\ tg[cp[c].obj].init = "false") =>
         \/ cp[c].state = "failed" /\ cp[c].exc = "BrowserError"
         \/ /\ cp[c].state = "awaitInit"
            /\ \E i \in 1..Len(ready) : ready[i].kind = "createPage" /\ ready[i].n = c
    /\ (cp[c].state = "failed" /\ c \notin Holding) => cp[c].exc = "AttributeError"

\* the call woken by the initialization of a target that was destroyed while
\* it was initializing
C19_Witness ==
  \E c \in Pages :
    /\ bop.op = "createPageResumed"
    /\ cp[c].state = "failed"
    /\ cp[c].exc = "BrowserError"
    /\ tg[cp[c].obj].init = "false"
    /\ tg[cp[c].obj].closed

\* C20: closing a non-default BrowserContext issues the dispose call for
\* its id, and the answered dispose call removes the context from the
\* registry, so that browserContexts() no longer lists it.
C20_CloseDisposesIncognito ==
  [][/\ (bop'.op = "close" /\ bop'.obj # DefaultContext) =>
          \E k \in 1..Len(sent') :
            /\ sent'[k] = Call("Target.disposeBrowserContext", bop'.id, None)
            /\ k > Len(sent)
     /\ bop'.op = "_disposeContext" =>
          /\ _contexts'[bop'.id] = None
          /\ \A b \in browserContexts' : bc[b].id # bop'.id]_vars

\* C21 as stated: in every reachable state the default BrowserContext has
\* no id and isIncognito() is false for it, no dispose call is issued for it
\* and browserContexts() lists it.
C21_DefaultHasNoId ==
  /\ bc[DefaultContext].id = None
  /\ ~isIncognito(DefaultContext)
  /\ DefaultContext \in browserContexts
  /\ \A k \in 1..Len(sent) :
       sent[k].method = "Target.disposeBrowserContext" =>
         sent[k].ctx \in BCtxIds

\* C21: the default BrowserContext keeps the id Chrome was constructed
\* with, which is absent (isIncognito() false) unless the targetInfo given
\* to the constructor carries a browserContextId (isIncognito() then true);
\* whatever that id, no operation, close() on the default context included,
\* issues a dispose call for it or removes it from browserContexts().
C21_DefaultKeptNeverDisposed ==
  [][/\ bc'[DefaultContext] = bc[DefaultContext]
     /\ isIncognito(DefaultContext)' = (bc[DefaultContext].id \in DefaultIds \ {None})
     /\ DefaultContext \in browserContexts'
     /\ (bop'.op = "close" /\ bop'.obj = DefaultContext) =>
          /\ sent' = sent
          /\ _contexts' = _contexts
     /\ \A k \in 1..Len(sent') :
          sent'[k].method = "Target.disposeBrowserContext" =>
            /\ sent'[k].ctx \in BCtxIds
            /\ sent'[k].ctx # bc[DefaultContext].id]_vars

\* close() on a default context that has an id, next to an incognito one
C21_Witness ==
  /\ bop.op = "close"
  /\ bop.obj = DefaultContext
  /\ isIncognito(DefaultContext)
  /\ \E b \in browserContexts : b # DefaultContext

\* C22: a caller suspended in a frame's executionContext() is released by
\* the next binding of a default context to that frame: no caller is still
\* suspended on a promise the frame has dropped once the frame has a default
\* context bound again.
C22_SuspendedCallersReleased ==
  \A run \in runs :
    run.pc \in {"orphan", "notOrphan"} => fr[tk[run.t].frame].ctx = None

\* C23: after a context-created notification that marks a context as the
\* default of a tracked frame, the frame's executionContext() returns the
\* context of that notification, also when the frame had a default context
\* bound already; and a frame never has more than one default context among
\* the registered ones.
C23_LatestContextBound ==
  [][/\ (lastOp'.op = "executionContextCreated" /\ lastOp'.b # None) =>
          fr'[lastOp'.b].ctx = lastOp'.a
     /\ \A i, j \in 1..Len(contexts') :
          ( /\ contexts'[i].isDefault /\ contexts'[j].isDefault
            /\ contexts'[i].frameId = contexts'[j].frameId
            /\ frames'[contexts'[i].frameId] # None ) => i = j]_vars

\* C24: a detached frame has no parent and no children, frame(id) never
\* returns it again, and no later notification changes its url, name,
\* navigation history or default context; the main frame included.
C24_DetachedFrameFrozen ==
  [][\A o \in Objs :
       fr[o].detached =>
         /\ fr[o].parent = None
         /\ fr[o].children = {}
         /\ \A i \in FrameIds : frames'[i] # o
         /\ fr'[o].url = fr[o].url
         /\ fr'[o].name = fr[o].name
         /\ fr'[o].navs = fr[o].navs
         /\ fr'[o].ctx = fr[o].ctx
         /\ fr'[o].detached]_vars

\* C25: handling frameNavigated for a frame the manager holds detaches
\* every current descendant of it before the payload is applied: the step
\* emits one FrameDetached per former descendant and then FrameNavigated,
\* and at that point the navigated frame has no children and none of its
\* former descendants is tracked.
C25_NavigateDetachesDescendantsFirst ==
  [][LET frame == IF lastOp'.b = None THEN mainFrame ELSE frames[lastOp'.a]
     IN (lastOp'.op = "frameNavigated" /\ lastOp'.exc = "none" /\ frame # None) =>
          LET former == Descendants(fr, frame)
              n == Cardinality(former)
          IN /\ Len(emitted') = n + 1
             /\ \A i \in 1..n : emitted'[i].ev = "framedetached"
             /\ {emitted'[i].frame : i \in 1..n} = former
             /\ emitted'[n + 1] = Ev("framenavigated", frame)
             /\ fr'[frame].children = {}
             /\ \A d \in former : d \notin Tracked' /\ fr'[d].detached]_vars

\* a navigation that tore down a child and a grandchild of the navigated frame
C25_Witness ==
  /\ lastOp.op = "frameNavigated"
  /\ Len(emitted) = 3
  /\ emitted[3].ev = "framenavigated"
  /\ fr[emitted[1].frame].detached
  /\ fr[emitted[2].frame].detached

\* C26: when a frame is navigated or detached, every pending WaitTask on a
\* frame that is torn down (the step emits FrameDetached for it) resolves
\* with the frame-detached error and that frame's wait-task set is empty
\* afterwards, while the wait tasks of the navigated frame itself are not
\* terminated and stay registered.
C26_TearDownTerminatesWaitTasks ==
  [][(lastOp'.op \in {"frameNavigated", "frameDetached"} /\ lastOp'.exc = "none") =>
       LET torn == {emitted'[i].frame :
                      i \in {j \in 1..Len(emitted') : emitted'[j].ev = "framedetached"}}
           navigated == {emitted'[i].frame :
                      i \in {j \in 1..Len(emitted') : emitted'[j].ev = "framenavigated"}}
       IN /\ \A o \in torn :
               /\ fr'[o].waitTasks = {}
               /\ \A t \in Made :
                    (tk[t].frame = o /\ ~Resolved(t)) =>
                      /\ tk'[t].promise.state = "exception"
                      /\ tk'[t].promise.val = "detached"
          /\ \A o \in navigated \ torn :
               /\ fr'[o].waitTasks = fr[o].waitTasks
               /\ \A t \in Made : tk[t].frame = o => tk'[t] = tk[t]]_vars

\* the main frame navigated while a wait task was pending on its child
C26_Witness ==
  /\ lastOp.op = "frameNavigated"
  /\ Len(emitted) = 2
  /\ emitted[1].ev = "framedetached"
  /\ \E t \in Made :
       /\ tk[t].frame = emitted[1].frame
       /\ tk[t].promise.state = "exception"
       /\ tk[t].promise.val = "detached"
       /\ tk[t].promise.latest > 0

\* C28: a WaitTask is in its frame's wait-task set exactly while its outcome
\* has not been delivered, and once the outcome is delivered its timeout timer
\* is no longer pending: it was cancelled (or had died), unless it is the
\* timer that fired and delivered the timeout error.
C28_RegisteredIffPending ==
  \A t \in Made :
    /\ (t \in fr[tk[t].frame].waitTasks) <=> ~Resolved(t)
    /\ \A o \in Objs : t \in fr[o].waitTasks => o = tk[t].frame
    /\ Resolved(t) =>
         /\ tk[t].timer # "armed"
         /\ (tk[t].timer = "fired") <=> (tk[t].promise.val = "timeout")
         /\ tk[t].timeoutError <=> (tk[t].timer = "fired")

\* a task resolved with a value by a rerun, its timer cancelled, and out of
\* its frame's set
C28_Witness ==
  \E t \in Made :
    /\ tk[t].promise.state = "result"
    /\ tk[t].timer = "cancelled"
    /\ t \notin fr[tk[t].frame].waitTasks
    /\ lastOp.op = "rerun"

\* the ids of the contexts a step took out of the registry
Removed ==
  {contexts[i].id : i \in 1..Len(contexts)} \
    {contexts'[i].id : i \in 1..Len(contexts')}

\* C29: when context-destroyed or contexts-cleared removes the context a
\* tracked frame holds as its default context, the frame is back to awaiting
\* a context (its promise is pending and the next binding resolves it); when
\* the step removes no context that a frame holds or that is marked default,
\* every frame's default-context slot is unchanged.
C29_RemovalResetsDefaultSlot ==
  [][lastOp'.op \in {"executionContextDestroyed", "executionContextsCleared"} =>
       /\ \A o \in Tracked :
            (fr[o].ctx # None /\ fr[o].ctx \in Removed) =>
              fr'[o].ctx = None /\ fr'[o].cb
       /\ (\A i \in 1..Len(contexts) :
             contexts[i].id \in Removed =>
               /\ ~contexts[i].isDefault
               /\ \A o \in Objs : fr[o].ctx # contexts[i].id) =>
            \A o \in Objs : fr'[o].ctx = fr[o].ctx /\ fr'[o].cb = fr[o].cb]_vars

\* C30: context-destroyed(id) for a registered id leaves the registry
\* without that id, contexts-cleared leaves it empty, and neither handler
\* raises, whatever came before: the owning frame detached, or the main
\* frame rebound to a new id.
C30_RemovalCompletes ==
  [][/\ lastOp'.op = "executionContextDestroyed" =>
          /\ lastOp'.exc = "none"
          /\ \A i \in 1..Len(contexts') : contexts'[i].id # lastOp'.a
     /\ lastOp'.op = "executionContextsCleared" =>
          /\ lastOp'.exc = "none"
          /\ contexts' = <<>>]_vars

\* C27: a pending WaitTask whose runs so far were all aborted, and whose
\* frame then gets a context-created notification for a default context in
\* which the predicate is truthy, eventually resolves with the success value,
\* unless its frame is detached, its timeout fires or a context is removed
\* again first.
C27_RerunOnNewContextResolves ==
  \A t \in Tasks :
    (/\ tk[t].frame # None
     /\ ~Resolved(t)
     /\ tk[t].runCount >= 1
     /\ \A run \in runs : run.t # t
     /\ lastOp.op = "executionContextCreated"
     /\ lastOp.b = tk[t].frame)
      ~> (\/ tk[t].promise.state = "result"
          \/ tk[t].promise.val \in {"detached", "timeout"}
          \/ lastOp.op \in {"executionContextDestroyed",
                             "executionContextsCleared"})

\* C31: a frameNavigated notification whose payload has a parent id and
\* whose frame id is not tracked raises the consistency error and changes
\* nothing: the registry, the main frame and every frame's fields are as
\* before, and no event is emitted.
C31_UntrackedChildNavigationRefused ==
  [][(/\ lastOp'.op = "frameNavigated"
      /\ lastOp'.b # None
      /\ frames[lastOp'.a] = None) =>
       /\ lastOp'.exc = "PageError"
       /\ frames' = frames
       /\ mainFrame' = mainFrame
       /\ nObjs' = nObjs
       /\ fr' = fr
       /\ emitted' = <<>>]_vars

\* the refused navigation, with a frame tree of a main frame and a child
C31_Witness ==
  /\ lastOp.op = "frameNavigated"
  /\ lastOp.exc = "PageError"
  /\ lastOp.b # None
  /\ \E o \in Tracked : fr[o].parent # None

\* C32: a same-document navigation for a tracked frame sets the frame's url
\* and appends exactly that one entry to its navigation history; the frame's
\* other fields, the registry, the main frame and every other frame are
\* unchanged, and no FrameNavigated or FrameDetached event is emitted.
C32_SameDocumentNavigationOnlyUrl ==
  [][(lastOp'.op = "navigatedWithinDocument" /\ frames[lastOp'.a] # None) =>
       LET o == frames[lastOp'.a]
       IN /\ lastOp'.exc = "none"
          /\ fr'[o].url \in Urls
          /\ fr'[o].navs = Append(fr[o].navs, fr'[o].url)
          /\ fr'[o] = [fr[o] EXCEPT !.url = fr'[o].url, !.navs = fr'[o].navs]
          /\ \A p \in Objs \ {o} : fr'[p] = fr[p]
          /\ frames' = frames
          /\ mainFrame' = mainFrame
          /\ nObjs' = nObjs
          /\ emitted' = <<>>]_vars

\* a same-document navigation of a child frame that had no url yet
C32_Witness ==
  /\ lastOp.op = "navigatedWithinDocument"
  /\ lastOp.exc = "none"
  /\ LET o == frames[lastOp.a]
     IN /\ o # None
        /\ fr[o].parent # None
        /\ fr[o].navs = <<fr[o].url>>
        /\ fr[o].url # ""

\* C33: a same-document navigation for a frame id that is not tracked is
\* skipped: the handler raises nothing and no frame's url or navigation
\* history changes.
C33_UntrackedSameDocumentSkipped ==
  [][(lastOp'.op = "navigatedWithinDocument" /\ frames[lastOp'.a] = None) =>
       /\ lastOp'.exc = "none"
       /\ \A o \in Objs : fr'[o].url = fr[o].url /\ fr'[o].navs = fr[o].navs]_vars

\* C34: targetInfoChanged for a target id that is not registered raises the
\* consistency error, leaves the registry and the targets as they are and
\* emits nothing; for a registered target it emits TargetChanged, once on the
\* Browser and then once on the target's BrowserContext, exactly when the
\* target's url after the new info differs from its url before.
C34_TargetChangedIffUrlDiffers ==
  [][bop'.op = "targetInfoChanged" =>
       IF _targets[bop'.id] = None
       THEN /\ bop'.exc = "BrowserError"
            /\ _targets' = _targets
            /\ tg' = tg
            /\ bemitted' = bemitted
       ELSE LET o == _targets[bop'.id]
            IN /\ bop'.exc = "none"
               /\ bop'.obj = o
               /\ _targets' = _targets
               /\ bemitted' =
                    IF tg'[o].url # tg[o].url
                    THEN bemitted \o <<BEv("targetchanged", o, Browser),
                                       BEv("targetchanged", o, tg[o].ctx)>>
                    ELSE bemitted]_vars

\* a registered target whose url the new info has changed
C34_Witness ==
  /\ bop.op = "targetInfoChanged"
  /\ bop.exc = "none"
  /\ Len(bemitted) >= 2
  /\ bemitted[Len(bemitted) - 1] = BEv("targetchanged", bop.obj, Browser)
  /\ bemitted[Len(bemitted)] = BEv("targetchanged", bop.obj, tg[bop.obj].ctx)
  /\ tg[bop.obj].url = "b"

\* C35: a target created by targetCreated belongs to the BrowserContext
\* registered under the event's browser-context id, or to the default
\* context when the id is absent or not registered, and no later step,
\* targetInfoChanged and the closing of its context included, changes the
\* BrowserContext a target belongs to.
C35_TargetKeepsItsContext ==
  [][/\ bop'.op = "targetCreated" =>
          LET c == Head(ready).ctx
              registered == c # None /\ c \in BCtxIds /\ _contexts[c] # None
          IN tg'[bop'.obj].ctx =
               IF registered THEN _contexts[c] ELSE DefaultContext
     /\ \A o \in 1..nTargets : tg'[o].ctx = tg[o].ctx]_vars

\* a target of an incognito context, its info changed, and the context
\* closed with the target still registered
C35_Witness ==
  \E o \in 1..nTargets :
    /\ tg[o].ctx # DefaultContext
    /\ tg[o].url = "b"
    /\ \E i \in TargetIds : _targets[i] = o
    /\ bop.op = "close"
    /\ bop.obj = tg[o].ctx

\* C36: a Frame object leaves the registry only by detachment: on every
\* step, a Frame that was tracked and is tracked under no id any more has
\* been marked detached and a FrameDetached event was emitted for it, and
\* in every state the parent of every tracked frame is itself tracked, a
\* main-frame navigation onto the id of another tracked frame included.
C36_LeavesRegistryOnlyDetached ==
  [][/\ \A o \in Tracked :
          (\A i \in FrameIds : frames'[i] # o) =>
            /\ fr'[o].detached
            /\ \E k \in 1..Len(emitted') : emitted'[k] = Ev("framedetached", o)
     /\ \A i \in FrameIds :
          frames'[i] # None /\ fr'[frames'[i]].parent # None =>
            \E j \in FrameIds : frames'[j] = fr'[frames'[i]].parent]_vars

\* C37: for every target, TargetDestroyed is emitted only if TargetCreated
\* was emitted earlier for that same target, whatever the interleaving of
\* the suspended targetCreated handler, the initialization handshake and
\* the targetDestroyed handler.
C37_DestroyedOnlyAfterCreated ==
  \A k \in 1..Len(bemitted) :
    bemitted[k].ev = "targetdestroyed" =>
      \E j \in 1..(k - 1) :
        /\ bemitted[j].ev = "targetcreated"
        /\ bemitted[j].target = bemitted[k].target

====
